---- MODULE Spec2Model ----
(***************************************************************************)
(* A model of the publish pipeline and the message codec of ably-go:       *)
(*   - pendingEmitter (ably/state.go): the pending-ack queue, Enqueue,     *)
(*     Ack, Nack;                                                           *)
(*   - msgQueue (ably/state.go): the outbound queue, Enqueue, Flush, Fail; *)
(*   - Message.withEncodedData / withDecodedData (ably/proto_message.go);  *)
(*   - PaginatedResultNew and PaginatedResult, the two REST paginators.    *)
(* Go slices are 0-based; the operators below keep Go's index values and   *)
(* translate them where a TLA+ sequence is indexed.                         *)
(***************************************************************************)
EXTENDS Integers, Sequences, FiniteSets, TLC

VARIABLES
    queue,      \* pendingEmitter.queue: sequence of [serial, ch]
    chans,      \* the completion channels: channel id -> values sent to it
    nextCh,     \* number of completion channels created so far
    panicked,   \* TRUE once a handler ended in a run-time panic
    lastOp,     \* the last call made: its arguments and the queue before it
    outq,       \* msgQueue.queue: sequence of [msg, ch]
    frames,     \* the publish frames the connection has sent: [msg, ch, serial]
    msgSerial,  \* the connection's next message serial
    orig,       \* the Message handed to the codec
    cipher,     \* the channelCipher given to withEncodedData (NoCipher for nil)
    dcipher,    \* the channelCipher given to withDecodedData
    msg,        \* the Message the last codec call returned
    cerr,       \* the error the last codec call returned
    cstage,     \* "new", "encoded", "encodeFailed", "roundtrip", "decoded"
    server,     \* the REST server's pages: [chain, decoys], fixed during a run
    gmode,      \* the wrapper in use: "pages", "items" (PaginatedResultNew), "old"
    gstage,     \* "init", "ready", "loadFailed"
    pg,         \* the PaginatedResultNew: basePath, nextLink, firstLink, res, err, first
    it,         \* the closure of loadItems: page, pageLen, nextItem
    old,        \* the current PaginatedResult, the one before it, the last error
    gcall,      \* the last paginator call: what it was given and what it returned
    gh,         \* what the paginator has loaded, returned and yielded so far
    gpanic,     \* TRUE once decodeResp was run on a nil response and panicked
    rt,         \* the host router: kind, opts, primary, candidates, cache, visited
    now,        \* the clock, in minutes
    hcall,      \* the last router call: what it was given and what it returned
    hh,         \* the calls of the current retry cycle and what was cached last
    shIn,       \* the slice Shuffle was called with
    shL,        \* the slice l of Shuffle, exchanged in place
    shI,        \* the number of iterations of Shuffle's loop that have run
    shState,    \* "idle", "running", "returned", "panicked"
    options,    \* the clientOptions the URLs are built from
    resolved,   \* the last URL built: which one, its host, the URL
    results,    \* the errResult made for each completion channel
    lastWait,   \* the last Wait call on an errResult: its context, what it returned
    gw,         \* goWaiter: what f returned, where the goroutine is, the channel err
    gwWait,     \* the Wait calls on goWaiter's result: how many, the last one
    mtx,        \* msgQueue.mtx: the caller holding it, or NoCaller
    procs,      \* the concurrent callers of the msgQueue: the call each is in, and where
    lr,         \* a listenResult: its states, its listeners, its channel changes
    lrWait,     \* the Wait calls on the listenResult: how many, the last one
    pparams,    \* the PaginateParams given to EncodeValues
    encoded,    \* what EncodeValues returned and wrote to the url.Values
    defaultOptions, \* the package variable defaultOptions
    built       \* the last two results of applyOptionsWithDefaults / applyAuthOptionsWithDefaults

pvars == <<queue, chans, nextCh, panicked, lastOp>>
qvars == <<outq, frames, msgSerial>>
mvars == <<orig, cipher, dcipher, msg, cerr, cstage>>
gvars == <<server, gmode, gstage, pg, it, old, gcall, gh, gpanic>>
hvars == <<rt, now, hcall, hh>>
uvars == <<shIn, shL, shI, shState>>
ovars == <<options, resolved>>
rvars == <<results, lastWait>>
wvars == <<gw, gwWait>>
cvars == <<mtx, procs>>
lvars == <<lr, lrWait>>
evars == <<pparams, encoded>>
dvars == <<defaultOptions, built>>
vars == <<pvars, qvars, mvars, gvars, hvars, uvars, ovars, rvars, wvars, cvars, lvars, evars, dvars>>

\* ---------------------------------------------------------------- bounds
MaxSerial == 2
MaxEnq == 3
MaxCount == 2
MaxMsgs == 4
MaxDataLen == 2

Serials == 0..MaxSerial
AckSerials == 0..(MaxSerial + 1)
Counts == 0..MaxCount
ChIds == 0..(MaxEnq - 1)

\* ---------------------------------------------------------------- errors
Nil == "nil"
errSerialSkipped == "errSerialSkipped"
NilErrorInfo == "nilErrorInfo"
ErrorInfos == {NilErrorInfo, "E1"}

\* (*ErrorInfo).unwrapNil: a nil *ErrorInfo becomes the nil error
unwrapNil(errInfo) == IF errInfo = NilErrorInfo THEN Nil ELSE errInfo

min(a, b) == IF a < b THEN a ELSE b

\* ---------------------------------------------------------------- pendingEmitter
\* sort.Search(n, f): binary search for the smallest index in [0, n) at which
\* the predicate q[i].serial >= s holds, as the Go library computes it.
RECURSIVE SortSearch(_, _, _, _)
SortSearch(q, s, i, j) ==
    IF i < j
    THEN LET h == (i + j) \div 2
         IN  IF ~(q[h + 1].serial >= s)
             THEN SortSearch(q, s, h + 1, j)
             ELSE SortSearch(q, s, i, h)
    ELSE i

Search(q, s) == SortSearch(q, s, 0, Len(q))

\* insert x at Go index i: append a zero entry, copy(q[i+1:], q[i:]), q[i] = x
InsertAt(q, i, x) ==
    [k \in 1..(Len(q) + 1) |->
        IF k < i + 1 THEN q[k] ELSE IF k = i + 1 THEN x ELSE q[k - 1]]

\* fault variant of Enqueue: always appends, without searching
EnqueueAppend(q, s, ch) == Append(q, [serial |-> s, ch |-> ch])

Enqueue(q, s, ch) ==
    LET i == Search(q, s)
    IN  IF i = Len(q) THEN Append(q, [serial |-> s, ch |-> ch])
        ELSE IF q[i + 1].serial = s THEN q
        ELSE InsertAt(q, i, [serial |-> s, ch |-> ch])

\* the switch of Ack: the numbers nack and ack
AckBounds(q, s, n) ==
    LET i == Search(q, s)
    IN  IF i = Len(q) THEN [nack |-> Len(q), ack |-> 0]
        ELSE IF q[i + 1].serial = s
             THEN [nack |-> i, ack |-> min(i + n, Len(q))]
             ELSE [nack |-> i + 1, ack |-> min(i + 1 + n, Len(q))]

\* the error Ack sends to the entries q[:nack]
AckErr(errInfo, nack) ==
    LET err == unwrapNil(errInfo)
    IN  IF err = Nil /\ nack > 0 THEN errSerialSkipped ELSE err

\* fault variant of NackBound: counts from the head, ignoring the search index
NackBoundCountOnly(q, s, n) == min(n, Len(q))

\* the switch of Nack: the number nack
NackBound(q, s, n) ==
    LET i == Search(q, s)
    IN  IF i = Len(q) THEN Len(q)
        ELSE IF q[i + 1].serial = s THEN min(i + n, Len(q))
        ELSE min(i + 1 + n, Len(q))

\* sch.ch <- v for every entry of q[lo:hi] (Go indices)
SendRange(cs, q, lo, hi, v) ==
    [c \in DOMAIN cs |->
        IF \E k \in (lo + 1)..hi : q[k].ch = c THEN Append(cs[c], v) ELSE cs[c]]

NoOp == [op |-> "none", serial |-> 0, count |-> 0, errInfo |-> NilErrorInfo, pre |-> <<>>]

QIdle ==
    /\ outq = <<>>
    /\ frames = <<>>
    /\ msgSerial = 0

\* the nil channelCipher and the nil interface value of Message.Data
NoCipher == [alg |-> "none", key |-> 0]
NilData == [t |-> "nil"]

MIdle ==
    /\ orig = [Data |-> NilData, Encoding |-> <<>>]
    /\ cipher = NoCipher
    /\ dcipher = NoCipher
    /\ msg = [Data |-> NilData, Encoding |-> <<>>]
    /\ cerr = Nil
    /\ cstage = "idle"

\* a nil *http.Response, and the paginator before any request
NilRes == [url |-> <<>>, links |-> <<>>, items |-> <<>>, bad |-> FALSE, nil |-> TRUE]
NoCall ==
    [op |-> "none", ret |-> FALSE, reqs |-> 0, wasFirst |-> FALSE, hadNext |-> FALSE,
     page |-> <<>>, failure |-> Nil, calledNext |-> FALSE, ended |-> FALSE,
     resNil |-> FALSE, prevOp |-> "none"]
NoHistory ==
    [loaded |-> NilRes, initial |-> NilRes, returned |-> <<>>, yielded |-> <<>>,
     failed |-> FALSE, ended |-> FALSE, exhausted |-> FALSE]
NoPaginatedResultNew ==
    [basePath |-> <<>>, nextLink |-> <<>>, firstLink |-> <<>>, res |-> NilRes,
     err |-> Nil, first |-> FALSE]
NoItems == [page |-> <<>>, pageLen |-> 0, nextItem |-> 0]
NoPaginatedResult == [page |-> NilRes, prev |-> NilRes, err |-> Nil]

GIdle ==
    /\ server = [chain |-> <<>>, decoys |-> <<>>]
    /\ gmode = "idle"
    /\ gstage = "init"
    /\ pg = NoPaginatedResultNew
    /\ it = NoItems
    /\ old = NoPaginatedResult
    /\ gcall = NoCall
    /\ gh = NoHistory
    /\ gpanic = FALSE

\* the empty host, and the router before it is constructed
NoHost == ""
NoRouter ==
    [kind |-> "none", opts |-> [FallbackRetryTimeout |-> 0], primary |-> NoHost,
     candidates |-> <<>>, cache |-> [host |-> NoHost, deadline |-> 0],
     visited |-> {}, primaryFallbackHost |-> NoHost]
NoHostCall == [op |-> "none", ret |-> NoHost]
NoHostHistory ==
    [calls |-> <<>>, mixed |-> FALSE, cached |-> NoHost, cachedAt |-> 0, shared |-> NoHost,
     reset |-> "no"]

HIdle ==
    /\ rt = NoRouter
    /\ now = 0
    /\ hcall = NoHostCall
    /\ hh = NoHostHistory

\* goWaiter not called, and no Wait call on its result
NoWaiter == [f |-> "none", stage |-> "idle", buf |-> <<>>, closed |-> FALSE]
NoWaiterCall == [count |-> 0, ret |-> "nil", ctxDone |-> FALSE, finished |-> FALSE]

WIdle ==
    /\ gw = NoWaiter
    /\ gwWait = NoWaiterCall

\* no caller of the msgQueue, and its mutex free
NoCaller == 0

CIdle ==
    /\ mtx = NoCaller
    /\ procs = <<>>

\* no listenResult made, and no Wait call on it
NoListenResult ==
    [kind |-> "none", expected |-> "none", failed |-> <<>>, listeners |-> {},
     changes |-> <<>>, sent |-> 0, blocked |-> FALSE]
NoListenWait ==
    [count |-> 0, ret |-> "nil", how |-> "none", cur |-> "none", reason |-> "nil"]

LIdle ==
    /\ lr = NoListenResult
    /\ lrWait = NoListenWait

\* no PaginateParams, and EncodeValues not called
NoParams == [Start |-> 0, End |-> 0, Unit |-> <<>>, Limit |-> 0, Direction |-> <<>>]
NoEncoded == [called |-> FALSE, err |-> "nil", out |-> {}]

EIdle ==
    /\ pparams = NoParams
    /\ encoded = NoEncoded

\* the options package not in use
NoDefaults == [set |-> FALSE]

DIdle ==
    /\ defaultOptions = NoDefaults
    /\ built = <<>>

\* an errResult that newErrResult has not made yet, and no Wait call yet
NoOutcome == "none"
NoResult ==
    [made |-> FALSE, err |-> Nil, listen |-> FALSE, recvd |-> 0,
     outcome |-> NoOutcome, cancelled |-> FALSE, queued |-> FALSE]
NoWait == [ch |-> 0, ret |-> Nil, ctxDone |-> FALSE, first |-> FALSE]

RIdle ==
    /\ results = <<>>
    /\ lastWait = NoWait

\* the zero clientOptions, and no URL built yet
NoOptions ==
    [RESTHost |-> <<>>, RealtimeHost |-> <<>>, Environment |-> <<>>,
     NoTLS |-> FALSE, Port |-> 0, TLSPort |-> 0]
NoURL == [kind |-> "none", host |-> <<>>, url |-> <<>>]

OIdle ==
    /\ options = NoOptions
    /\ resolved = NoURL

UIdle ==
    /\ shIn = <<>>
    /\ shL = <<>>
    /\ shI = 0
    /\ shState = "idle"

PIdle ==
    /\ queue = <<>>
    /\ chans = [c \in ChIds |-> <<>>]
    /\ nextCh = 0
    /\ panicked = FALSE
    /\ lastOp = NoOp

PInit ==
    /\ QIdle
    /\ MIdle
    /\ GIdle
    /\ HIdle
    /\ UIdle
    /\ OIdle
    /\ RIdle
    /\ WIdle
    /\ CIdle
    /\ LIdle
    /\ EIdle
    /\ DIdle
    /\ queue = <<>>
    /\ chans = [c \in ChIds |-> <<>>]
    /\ nextCh = 0
    /\ panicked = FALSE
    /\ lastOp = NoOp

\* q.Enqueue(msg, ch) with msg.MsgSerial = s, on the queue and the channels
EnqueueCall(s, ch) ==
    /\ ~panicked
    /\ queue' = Enqueue(queue, s, ch)
    /\ nextCh' = nextCh + 1
    /\ UNCHANGED <<chans, panicked>>

\* one call q.Enqueue(msg, ch) with msg.MsgSerial = s
DoEnqueue(s, ch) ==
    /\ EnqueueCall(s, ch)
    /\ lastOp' = [op |-> "Enqueue", serial |-> s, count |-> 0,
                  errInfo |-> NilErrorInfo, pre |-> queue]

\* q.Ack(msg, errInfo) with msg.MsgSerial = s, msg.Count = n
AckCall(s, n, errInfo) ==
    /\ ~panicked
    /\ IF Len(queue) = 0
       THEN UNCHANGED <<queue, chans, nextCh, panicked>>
       ELSE LET b == AckBounds(queue, s, n)
                err == AckErr(errInfo, b.nack)
                nacked == SendRange(chans, queue, 0, b.nack, err)
            IN  IF b.nack > b.ack
                THEN \* q.queue[nack:ack] with nack > ack: slice bounds out of range
                     /\ chans' = nacked
                     /\ panicked' = TRUE
                     /\ UNCHANGED <<queue, nextCh>>
                ELSE /\ chans' = SendRange(nacked, queue, b.nack, b.ack, Nil)
                     /\ queue' = SubSeq(queue, b.ack + 1, Len(queue))
                     /\ UNCHANGED <<nextCh, panicked>>

PAck(s, n, errInfo) ==
    /\ AckCall(s, n, errInfo)
    /\ lastOp' = [op |-> "Ack", serial |-> s, count |-> n, errInfo |-> errInfo, pre |-> queue]

\* q.Nack(msg, errInfo) with msg.MsgSerial = s, msg.Count = n
NackCall(s, n, errInfo) ==
    /\ ~panicked
    /\ IF Len(queue) = 0
       THEN UNCHANGED <<queue, chans, nextCh, panicked>>
       ELSE LET nack == NackBound(queue, s, n)
            IN  /\ chans' = SendRange(chans, queue, 0, nack, unwrapNil(errInfo))
                /\ queue' = SubSeq(queue, nack + 1, Len(queue))
                /\ UNCHANGED <<nextCh, panicked>>

PNack(s, n, errInfo) ==
    /\ NackCall(s, n, errInfo)
    /\ lastOp' = [op |-> "Nack", serial |-> s, count |-> n, errInfo |-> errInfo, pre |-> queue]

PNext ==
    \/ \E s \in Serials : nextCh < MaxEnq /\ DoEnqueue(s, nextCh) /\ UNCHANGED <<qvars, mvars, gvars, hvars, uvars, ovars, rvars, wvars, cvars, lvars, evars, dvars>>
    \/ \E s \in AckSerials, n \in Counts, e \in ErrorInfos :
          PAck(s, n, e) /\ UNCHANGED <<qvars, mvars, gvars, hvars, uvars, ovars, rvars, wvars, cvars, lvars, evars, dvars>>
    \/ \E s \in AckSerials, n \in Counts, e \in ErrorInfos :
          PNack(s, n, e) /\ UNCHANGED <<qvars, mvars, gvars, hvars, uvars, ovars, rvars, wvars, cvars, lvars, evars, dvars>>

\* the pending-ack queue under arbitrary Enqueue, Ack and Nack calls
Spec == PInit /\ [][PNext]_vars

\* ---------------------------------------------------------------- serial-skip scenario
\* Serials 0..5 are enqueued (channel s for serial s), then the server ACKs
\* serials 0..2 and NACKs serial 5, count 1, with an error.
ScenarioSerials == 0..5

SInit ==
    /\ QIdle
    /\ MIdle
    /\ GIdle
    /\ HIdle
    /\ UIdle
    /\ OIdle
    /\ RIdle
    /\ WIdle
    /\ CIdle
    /\ LIdle
    /\ EIdle
    /\ DIdle
    /\ queue = <<>>
    /\ chans = [c \in ScenarioSerials |-> <<>>]
    /\ nextCh = 0
    /\ panicked = FALSE
    /\ lastOp = NoOp

SEnqueue(s) ==
    /\ lastOp.op \in {"none", "Enqueue"}
    /\ \A k \in 1..Len(queue) : queue[k].serial # s
    /\ DoEnqueue(s, s)

SAck ==
    /\ lastOp.op = "Enqueue"
    /\ Len(queue) = Cardinality(ScenarioSerials)
    /\ PAck(0, 3, NilErrorInfo)

SNack(e) ==
    /\ lastOp.op = "Ack"
    /\ PNack(5, 1, e)

SNext ==
    \/ \E s \in ScenarioSerials : SEnqueue(s) /\ UNCHANGED <<qvars, mvars, gvars, hvars, uvars, ovars, rvars, wvars, cvars, lvars, evars, dvars>>
    \/ SAck /\ UNCHANGED <<qvars, mvars, gvars, hvars, uvars, ovars, rvars, wvars, cvars, lvars, evars, dvars>>
    \/ \E e \in ErrorInfos \ {NilErrorInfo} : SNack(e) /\ UNCHANGED <<qvars, mvars, gvars, hvars, uvars, ovars, rvars, wvars, cvars, lvars, evars, dvars>>

SpecScenario == SInit /\ [][SNext]_vars

\* ---------------------------------------------------------------- msgQueue
Reverse(q) == [k \in 1..Len(q) |-> q[Len(q) + 1 - k]]

\* msgQueue.Enqueue: append under the mutex
QueueEnqueue(q, m, ch) == Append(q, [msg |-> m, ch |-> ch])

\* fault variants of Flush: the queue sent last entry first; the queue not cleared
FlushReversed(q) == [calls |-> Reverse(q), queue |-> <<>>]
FlushKeepsQueue(q) == [calls |-> q, queue |-> q]

\* msgQueue.Flush: the conn.send calls it makes, in order, and the queue it leaves
Flush(q) == [calls |-> q, queue |-> <<>>]

\* fault variant of Fail: the queue not cleared
FailKeepsQueue(cs, q, err) ==
    [chans |-> SendRange(cs, q, 0, Len(q), [code |-> 90000, err |-> err]), queue |-> q]

\* msgQueue.Fail: msgch.ch <- newError(90000, err) for every entry, then queue = nil
Fail(cs, q, err) ==
    [chans |-> SendRange(cs, q, 0, Len(q), [code |-> 90000, err |-> err]), queue |-> <<>>]

\* Connection.send on a connected connection: the frame takes the connection's
\* next msgSerial and is handed to the pending-ack queue with its channel.
ConnSend(st, call) ==
    [frames |-> Append(st.frames, [msg |-> call.msg, ch |-> call.ch, serial |-> st.msgSerial]),
     msgSerial |-> st.msgSerial + 1,
     queue |-> Enqueue(st.queue, st.msgSerial, call.ch)]

RECURSIVE SendAll(_, _)
SendAll(st, calls) ==
    IF calls = <<>> THEN st ELSE SendAll(ConnSend(st, Head(calls)), Tail(calls))

ConnErrors == {"errDisconnected", "errFailed"}
MsgIds == 0..(MaxMsgs - 1)

QInit ==
    /\ QIdle
    /\ MIdle
    /\ GIdle
    /\ HIdle
    /\ UIdle
    /\ OIdle
    /\ RIdle
    /\ WIdle
    /\ CIdle
    /\ LIdle
    /\ EIdle
    /\ DIdle
    /\ queue = <<>>
    /\ chans = [c \in MsgIds |-> <<>>]
    /\ nextCh = 0
    /\ panicked = FALSE
    /\ lastOp = NoOp

QOp(name, err) ==
    [op |-> name, pre |-> outq, nframes |-> Len(frames), err |-> err]

\* a publish while the connection is not connected: newErrResult, msgQueue.Enqueue
QEnqueue ==
    /\ nextCh < MaxMsgs
    /\ outq' = QueueEnqueue(outq, nextCh, nextCh)
    /\ nextCh' = nextCh + 1
    /\ lastOp' = QOp("QEnqueue", Nil)
    /\ UNCHANGED <<queue, chans, panicked, frames, msgSerial>>

\* a publish while the connection is connected: newErrResult, conn.send
QSend ==
    /\ nextCh < MaxMsgs
    /\ LET st == ConnSend([frames |-> frames, msgSerial |-> msgSerial, queue |-> queue],
                           [msg |-> nextCh, ch |-> nextCh])
       IN  /\ frames' = st.frames
           /\ msgSerial' = st.msgSerial
           /\ queue' = st.queue
    /\ nextCh' = nextCh + 1
    /\ lastOp' = QOp("QSend", Nil)
    /\ UNCHANGED <<outq, chans, panicked>>

\* the connection became connected: msgQueue.Flush
QFlush ==
    /\ LET f == Flush(outq)
           st == SendAll([frames |-> frames, msgSerial |-> msgSerial, queue |-> queue], f.calls)
       IN  /\ frames' = st.frames
           /\ msgSerial' = st.msgSerial
           /\ queue' = st.queue
           /\ outq' = f.queue
    /\ lastOp' = QOp("Flush", Nil)
    /\ UNCHANGED <<chans, nextCh, panicked>>

\* the connection failed or closed with err: msgQueue.Fail(err)
QFail(err) ==
    /\ LET f == Fail(chans, outq, err)
       IN  /\ chans' = f.chans
           /\ outq' = f.queue
    /\ lastOp' = QOp("Fail", err)
    /\ UNCHANGED <<queue, nextCh, panicked, frames, msgSerial>>

QNext ==
    \/ QEnqueue /\ UNCHANGED <<mvars, gvars, hvars, uvars, ovars, rvars, wvars, cvars, lvars, evars, dvars>>
    \/ QSend /\ UNCHANGED <<mvars, gvars, hvars, uvars, ovars, rvars, wvars, cvars, lvars, evars, dvars>>
    \/ QFlush /\ UNCHANGED <<mvars, gvars, hvars, uvars, ovars, rvars, wvars, cvars, lvars, evars, dvars>>
    \/ \E err \in ConnErrors : QFail(err) /\ UNCHANGED <<mvars, gvars, hvars, uvars, ovars, rvars, wvars, cvars, lvars, evars, dvars>>

\* the outbound queue in front of a connection that accepts frames
SpecQueue == QInit /\ [][QNext]_vars

\* ---------------------------------------------------------------- message codec
\* A Go string and a []byte are sequences of bytes 0..255. Message.Data is
\*   [t |-> "nil"], [t |-> "string", b |-> bytes], [t |-> "bytes", b |-> bytes],
\*   [t |-> "json", v |-> J] for any other value that json.Marshal accepts, or
\*   [t |-> "chan"] for a value json.Marshal rejects.
\* Message.Encoding is a string: a sequence of atoms, "/" being the separator.

\* encodings
encUTF8 == "utf-8"
encJSON == "json"
encBase64 == "base64"
encCipher == "cipher"

\* the atoms that start with encCipher (strings.HasPrefix(encoding, encCipher))
CipherPrefixed == {"cipher", "cipher+aes-128-cbc"}

RECURSIVE SeqsUpTo(_, _)
SeqsUpTo(S, n) ==
    IF n = 0 THEN {<<>>}
    ELSE LET R == SeqsUpTo(S, n - 1)
         IN  R \cup {Append(r, x) : r \in {q \in R : Len(q) = n - 1}, x \in S}

\* the bytes the model's payloads are made of: 'A', the two bytes of U+00E9,
\* and 0xFF, which no UTF-8 text holds
DataBytes == {65, 195, 169, 255}

\* utf8.ValidString, for one- and two-byte sequences (the only lead bytes below
\* 0xE0); every other byte is invalid where a sequence must start
RECURSIVE ValidString(_)
ValidString(b) ==
    IF b = <<>> THEN TRUE
    ELSE IF b[1] < 128 THEN ValidString(Tail(b))
    ELSE IF b[1] >= 194 /\ b[1] <= 223 /\ Len(b) >= 2 /\ b[2] >= 128 /\ b[2] <= 191
         THEN ValidString(Tail(Tail(b)))
    ELSE FALSE

\* ---- encoding/base64, StdEncoding
B64Char(i) ==
    IF i < 26 THEN 65 + i
    ELSE IF i < 52 THEN 97 + (i - 26)
    ELSE IF i < 62 THEN 48 + (i - 52)
    ELSE IF i = 62 THEN 43 ELSE 47

B64Index(c) ==
    IF c >= 65 /\ c <= 90 THEN c - 65
    ELSE IF c >= 97 /\ c <= 122 THEN c - 97 + 26
    ELSE IF c >= 48 /\ c <= 57 THEN c - 48 + 52
    ELSE IF c = 43 THEN 62
    ELSE IF c = 47 THEN 63 ELSE -1

B64Pad == 61

RECURSIVE Base64Encode(_)
Base64Encode(b) ==
    IF Len(b) = 0 THEN <<>>
    ELSE IF Len(b) = 1
         THEN <<B64Char(b[1] \div 4), B64Char((b[1] % 4) * 16), B64Pad, B64Pad>>
    ELSE IF Len(b) = 2
         THEN <<B64Char(b[1] \div 4),
                B64Char((b[1] % 4) * 16 + b[2] \div 16),
                B64Char((b[2] % 16) * 4), B64Pad>>
    ELSE <<B64Char(b[1] \div 4),
           B64Char((b[1] % 4) * 16 + b[2] \div 16),
           B64Char((b[2] % 16) * 4 + b[3] \div 64),
           B64Char(b[3] % 64)>> \o Base64Encode(SubSeq(b, 4, Len(b)))

\* DecodeString: [ok, b]; ok is FALSE for a corrupt input
RECURSIVE Base64Decode(_)
Base64Decode(s) ==
    IF Len(s) = 0 THEN [ok |-> TRUE, b |-> <<>>]
    ELSE IF Len(s) < 4 THEN [ok |-> FALSE, b |-> <<>>]
    ELSE LET i1 == B64Index(s[1])
             i2 == B64Index(s[2])
             i3 == B64Index(s[3])
             i4 == B64Index(s[4])
             last == Len(s) = 4
         IN  IF i1 < 0 \/ i2 < 0 THEN [ok |-> FALSE, b |-> <<>>]
             ELSE IF s[3] = B64Pad
                  THEN [ok |-> last /\ s[4] = B64Pad,
                        b |-> <<i1 * 4 + i2 \div 16>>]
             ELSE IF i3 < 0 THEN [ok |-> FALSE, b |-> <<>>]
             ELSE IF s[4] = B64Pad
                  THEN [ok |-> last,
                        b |-> <<i1 * 4 + i2 \div 16, (i2 % 16) * 16 + i3 \div 4>>]
             ELSE IF i4 < 0 THEN [ok |-> FALSE, b |-> <<>>]
             ELSE LET rest == Base64Decode(SubSeq(s, 5, Len(s)))
                  IN  [ok |-> rest.ok,
                       b |-> <<i1 * 4 + i2 \div 16, (i2 % 16) * 16 + i3 \div 4,
                               (i3 % 4) * 64 + i4>> \o rest.b]

\* ---- encoding/json over a small universe of values
JNum(n) == [k |-> "number", n |-> n]
JsonValues ==
    {[k |-> "object", f |-> <<>>],
     [k |-> "object", f |-> <<[key |-> <<65>>, val |-> JNum(1)]>>],
     [k |-> "array", e |-> <<>>],
     [k |-> "array", e |-> <<JNum(1), JNum(42)>>],
     JNum(1), JNum(42),
     [k |-> "bool", v |-> TRUE],
     [k |-> "null"],
     [k |-> "jstring", s |-> <<65>>]}

RECURSIVE Decimal(_)
Decimal(n) == IF n < 10 THEN <<48 + n>> ELSE Decimal(n \div 10) \o <<48 + (n % 10)>>

RECURSIVE Marshal(_)
RECURSIVE MarshalList(_)
RECURSIVE MarshalFields(_)
MarshalList(e) ==
    IF e = <<>> THEN <<>>
    ELSE IF Len(e) = 1 THEN Marshal(e[1])
    ELSE Marshal(e[1]) \o <<44>> \o MarshalList(Tail(e))
MarshalFields(f) ==
    IF f = <<>> THEN <<>>
    ELSE LET one == <<34>> \o f[1].key \o <<34, 58>> \o Marshal(f[1].val)
         IN  IF Len(f) = 1 THEN one ELSE one \o <<44>> \o MarshalFields(Tail(f))
\* json.Marshal of a value: its JSON text
Marshal(j) ==
    CASE j.k = "number" -> Decimal(j.n)
      [] j.k = "bool" -> IF j.v THEN <<116, 114, 117, 101>> ELSE <<102, 97, 108, 115, 101>>
      [] j.k = "null" -> <<110, 117, 108, 108>>
      [] j.k = "jstring" -> <<34>> \o j.s \o <<34>>
      [] j.k = "array" -> <<91>> \o MarshalList(j.e) \o <<93>>
      [] j.k = "object" -> <<123>> \o MarshalFields(j.f) \o <<125>>

\* json.Unmarshal(d, &result) into an interface{}: the value whose text is d,
\* as the Go value it becomes (a JSON string is a string, null is nil)
Unmarshal(d) ==
    LET S == {j \in JsonValues : Marshal(j) = d}
    IN  IF S = {} THEN [ok |-> FALSE, v |-> NilData]
        ELSE LET j == CHOOSE x \in S : TRUE
             IN  [ok |-> TRUE,
                  v |-> IF j.k = "jstring" THEN [t |-> "string", b |-> j.s]
                        ELSE IF j.k = "null" THEN NilData
                        ELSE [t |-> "json", v |-> j]]

\* ---- channelCipher: a cipher is [alg, key]; Encrypt prefixes an IV byte and
\* shifts every byte by the key, Decrypt undoes it and fails without the IV
IV == 200
AES == [alg |-> "cipher+aes-128-cbc", key |-> 7]
Ciphers == {NoCipher, AES}
Encrypt(c, bs) == <<IV>> \o [k \in 1..Len(bs) |-> (bs[k] + c.key) % 256]
Decrypt(c, bs) ==
    IF Len(bs) = 0 \/ bs[1] # IV THEN [ok |-> FALSE, b |-> <<>>]
    ELSE [ok |-> TRUE, b |-> [k \in 1..(Len(bs) - 1) |-> (bs[k + 1] + 256 - c.key) % 256]]

\* ---- strings.Split(s, "/") and strings.Join(a, "/")
RECURSIVE SplitFrom(_, _, _)
SplitFrom(s, cur, acc) ==
    IF s = <<>> THEN Append(acc, cur)
    ELSE IF Head(s) = "/" THEN SplitFrom(Tail(s), <<>>, Append(acc, cur))
    ELSE SplitFrom(Tail(s), Append(cur, Head(s)), acc)
Split(s) == SplitFrom(s, <<>>, <<>>)

RECURSIVE Join(_)
Join(a) ==
    IF a = <<>> THEN <<>>
    ELSE IF Len(a) = 1 THEN a[1]
    ELSE a[1] \o <<"/">> \o Join(Tail(a))

\* fault variant of mergeEncoding: the new token goes in front of the chain
mergeEncodingInFront(a, b) == IF a = <<>> THEN b ELSE b \o <<"/">> \o a

mergeEncoding(a, b) == IF a = <<>> THEN b ELSE a \o <<"/">> \o b

coerceString(d) ==
    IF d.t \in {"bytes", "string"} THEN [ok |-> TRUE, b |-> d.b] ELSE [ok |-> FALSE, b |-> <<>>]

coerceBytes(d) ==
    IF d.t \in {"bytes", "string"} THEN [ok |-> TRUE, b |-> d.b] ELSE [ok |-> FALSE, b |-> <<>>]

Str(b) == [t |-> "string", b |-> b]
Bytes(b) == [t |-> "bytes", b |-> b]

\* fault variant of EncodePlain: the JSON text's first token is not looked at
EncodePlainAnyJSON(m) ==
    LET d0 == IF m.Data.t = "string" /\ ~ValidString(m.Data.b)
              THEN Bytes(m.Data.b) ELSE m.Data
    IN  CASE d0.t = "string" -> [m |-> [m EXCEPT !.Data = d0], err |-> Nil]
          [] d0.t = "bytes" ->
                [m |-> [Data |-> Str(Base64Encode(d0.b)),
                        Encoding |-> mergeEncoding(m.Encoding, <<encBase64>>)],
                 err |-> Nil]
          [] d0.t = "chan" ->
                [m |-> [Data |-> NilData, Encoding |-> <<>>], err |-> "unencodableData"]
          [] d0.t = "json" ->
                [m |-> [Data |-> Str(Marshal(d0.v)),
                        Encoding |-> mergeEncoding(m.Encoding, <<encJSON>>)],
                 err |-> Nil]

\* withEncodedData, the part before the cipher: [m, err]
EncodePlain(m) ==
    LET d0 == IF m.Data.t = "string" /\ ~ValidString(m.Data.b)
              THEN Bytes(m.Data.b) ELSE m.Data
    IN  CASE d0.t = "string" -> [m |-> [m EXCEPT !.Data = d0], err |-> Nil]
          [] d0.t = "bytes" ->
                [m |-> [Data |-> Str(Base64Encode(d0.b)),
                        Encoding |-> mergeEncoding(m.Encoding, <<encBase64>>)],
                 err |-> Nil]
          [] d0.t = "chan" ->
                [m |-> [Data |-> NilData, Encoding |-> <<>>], err |-> "unencodableData"]
          [] d0.t = "json" ->
                LET b == Marshal(d0.v)
                IN  IF b[1] # 91 /\ b[1] # 123
                    THEN [m |-> [Data |-> NilData, Encoding |-> <<>>],
                          err |-> "unencodableData"]
                    ELSE [m |-> [Data |-> Str(b),
                                 Encoding |-> mergeEncoding(m.Encoding, <<encJSON>>)],
                          err |-> Nil]

\* fault variant of PlainIsUTF8: utf-8 is never added
PlainIsUTF8Never(d) == FALSE

\* the test that adds utf-8 before the cipher's token
PlainIsUTF8(d) == d.t = "string" /\ ValidString(d.b)

\* Message.withEncodedData: [m, err]
withEncodedData(m, c) ==
    IF m.Data.t = "nil" THEN [m |-> m, err |-> Nil]
    ELSE LET p == EncodePlain(m)
         IN  IF p.err # Nil \/ c = NoCipher THEN p
             ELSE LET bs == coerceBytes(p.m.Data).b
                      e == Encrypt(c, bs)
                      enc1 == IF PlainIsUTF8(p.m.Data)
                              THEN mergeEncoding(p.m.Encoding, <<encUTF8>>)
                              ELSE p.m.Encoding
                  IN  [m |-> [Data |-> Str(Base64Encode(e)),
                              Encoding |-> mergeEncoding(mergeEncoding(enc1, <<c.alg>>),
                                                         <<encBase64>>)],
                       err |-> Nil]

\* one iteration of the loop of withDecodedData on the token `encoding`:
\* [ok, d] with the new m.Data, or ok = FALSE and the error
DecodeToken(d, encoding, c) ==
    IF encoding = <<encBase64>>
    THEN LET s == coerceString(d)
             r == Base64Decode(s.b)
         IN  IF ~s.ok THEN [ok |-> FALSE, d |-> d, err |-> "coerce"]
             ELSE IF ~r.ok THEN [ok |-> FALSE, d |-> d, err |-> "base64"]
             ELSE [ok |-> TRUE, d |-> Bytes(r.b), err |-> Nil]
    ELSE IF encoding = <<encUTF8>>
    THEN LET s == coerceString(d)
         IN  IF ~s.ok THEN [ok |-> FALSE, d |-> d, err |-> "coerce"]
             ELSE [ok |-> TRUE, d |-> Str(s.b), err |-> Nil]
    ELSE IF encoding = <<encJSON>>
    THEN LET s == coerceBytes(d)
             r == Unmarshal(s.b)
         IN  IF ~s.ok THEN [ok |-> FALSE, d |-> d, err |-> "coerce"]
             ELSE IF ~r.ok THEN [ok |-> FALSE, d |-> d, err |-> "unmarshal"]
             ELSE [ok |-> TRUE, d |-> r.v, err |-> Nil]
    ELSE IF Len(encoding) >= 1 /\ encoding[1] \in CipherPrefixed
    THEN IF c = NoCipher THEN [ok |-> FALSE, d |-> d, err |-> "noCipher"]
         ELSE LET s == coerceBytes(d)
                  r == Decrypt(c, s.b)
              IN  IF ~s.ok THEN [ok |-> FALSE, d |-> d, err |-> "coerce"]
                  ELSE IF ~r.ok THEN [ok |-> FALSE, d |-> d, err |-> "decrypt"]
                  ELSE [ok |-> TRUE, d |-> Bytes(r.b), err |-> Nil]
    ELSE [ok |-> FALSE, d |-> d, err |-> "unknownEncoding"]

\* fault variant of DecodeLoop: m.Encoding is not updated after a step
RECURSIVE DecodeLoopKeepsEncoding(_, _, _)
DecodeLoopKeepsEncoding(m, encodings, c) ==
    IF encodings = <<>> THEN [m |-> [m EXCEPT !.Encoding = <<>>], err |-> Nil]
    ELSE LET encoding == encodings[Len(encodings)]
             rest == SubSeq(encodings, 1, Len(encodings) - 1)
             r == DecodeToken(m.Data, encoding, c)
         IN  IF ~r.ok THEN [m |-> m, err |-> r.err]
             ELSE DecodeLoopKeepsEncoding([m EXCEPT !.Data = r.d], rest, c)

\* the loop of withDecodedData over the tokens left, last one first
RECURSIVE DecodeLoop(_, _, _)
DecodeLoop(m, encodings, c) ==
    IF encodings = <<>> THEN [m |-> m, err |-> Nil]
    ELSE LET encoding == encodings[Len(encodings)]
             rest == SubSeq(encodings, 1, Len(encodings) - 1)
             r == DecodeToken(m.Data, encoding, c)
         IN  IF ~r.ok THEN [m |-> m, err |-> r.err]
             ELSE DecodeLoop([Data |-> r.d, Encoding |-> Join(rest)], rest, c)

withDecodedData(m, c) ==
    IF m.Data.t = "nil" \/ m.Encoding = <<>> THEN [m |-> m, err |-> Nil]
    ELSE DecodeLoop(m, Split(m.Encoding), c)

\* the payloads and the encodings a message starts with
Payloads ==
    {NilData, [t |-> "chan"]}
      \cup {Str(b) : b \in SeqsUpTo(DataBytes, MaxDataLen)}
      \cup {Bytes(b) : b \in SeqsUpTo(DataBytes, MaxDataLen)}
      \cup {[t |-> "json", v |-> j] : j \in {x \in JsonValues : x.k # "jstring"}}

InitEncodings ==
    {<<>>, <<encJSON>>, <<"foo">>, <<encJSON, "/", "foo", "/", encBase64>>,
     <<"cipher+aes-128-cbc", "/", encBase64>>, <<encUTF8>>}

MInit ==
    /\ QIdle
    /\ GIdle
    /\ HIdle
    /\ UIdle
    /\ OIdle
    /\ RIdle
    /\ WIdle
    /\ CIdle
    /\ LIdle
    /\ EIdle
    /\ DIdle
    /\ queue = <<>>
    /\ chans = [c \in ChIds |-> <<>>]
    /\ nextCh = 0
    /\ panicked = FALSE
    /\ lastOp = NoOp
    /\ orig \in {[Data |-> d, Encoding |-> e] : d \in Payloads, e \in InitEncodings}
    /\ cipher \in Ciphers
    /\ dcipher = NoCipher
    /\ msg = orig
    /\ cerr = Nil
    /\ cstage = "new"

\* m.withEncodedData(cipher) on a message to publish
MEncode ==
    /\ cstage = "new"
    /\ LET r == withEncodedData(orig, cipher)
       IN  /\ msg' = r.m
           /\ cerr' = r.err
           /\ cstage' = IF r.err = Nil THEN "encoded" ELSE "encodeFailed"
    /\ UNCHANGED <<orig, cipher, dcipher>>

\* m.withDecodedData(c) on the encoded message (a round trip), or on a
\* message as it was received
MDecode(c) ==
    /\ cstage \in {"new", "encoded"}
    /\ LET r == withDecodedData(msg, c)
       IN  /\ msg' = r.m
           /\ cerr' = r.err
    /\ dcipher' = c
    /\ cstage' = IF cstage = "encoded" THEN "roundtrip" ELSE "decoded"
    /\ UNCHANGED <<orig, cipher>>

MNext ==
    \/ MEncode /\ UNCHANGED <<pvars, qvars, gvars, hvars, uvars, ovars, rvars, wvars, cvars, lvars, evars, dvars>>
    \/ \E c \in Ciphers : MDecode(c) /\ UNCHANGED <<pvars, qvars, gvars, hvars, uvars, ovars, rvars, wvars, cvars, lvars, evars, dvars>>

\* the codec applied to one message
SpecCodec == MInit /\ [][MNext]_vars

\* ---------------------------------------------------------------- paginator
\* A URL or path is a Go string: a sequence of atoms, "/" separating the path's
\* elements, "." and ".." being the dot elements and "?" starting the query.
\* An HTTP response is [url, links, items, bad, nil]: the URL it answers, its
\* Link headers as the pairs (rel, url) that relLinkRegexp extracts, the items
\* of its body, whether the body fails to decode, and nil for no response.
MaxPages == 3
MaxPageLen == 2

\* ---- package path: Clean, Dir, Join
RECURSIVE CleanElems(_, _, _)
CleanElems(elems, rooted, out) ==
    IF elems = <<>> THEN out
    ELSE LET e == Head(elems)
             rest == Tail(elems)
         IN  IF e = <<>> \/ e = <<".">> THEN CleanElems(rest, rooted, out)
             ELSE IF e = <<"..">>
                  THEN IF out # <<>> /\ out[Len(out)] # <<"..">>
                       THEN CleanElems(rest, rooted, SubSeq(out, 1, Len(out) - 1))
                       ELSE IF rooted THEN CleanElems(rest, rooted, out)
                       ELSE CleanElems(rest, rooted, Append(out, e))
             ELSE CleanElems(rest, rooted, Append(out, e))

pathClean(s) ==
    IF s = <<>> THEN <<".">>
    ELSE LET rooted == s[1] = "/"
             out == CleanElems(Split(s), rooted, <<>>)
         IN  IF rooted THEN <<"/">> \o Join(out)
             ELSE IF out = <<>> THEN <<".">> ELSE Join(out)

\* the index of the last "/" of s, 0 when it has none
LastSlash(s) ==
    LET I == {k \in 1..Len(s) : s[k] = "/"}
    IN  IF I = {} THEN 0 ELSE CHOOSE k \in I : \A j \in I : j <= k

pathDir(s) == pathClean(SubSeq(s, 1, LastSlash(s)))

pathJoin(a, b) ==
    IF a = <<>> /\ b = <<>> THEN <<>>
    ELSE IF a = <<>> THEN pathClean(b)
    ELSE IF b = <<>> THEN pathClean(a)
    ELSE pathClean(a \o <<"/">> \o b)

\* origPath[:strings.IndexRune(origPath, '?')]
StripQuery(s) ==
    LET I == {k \in 1..Len(s) : s[k] = "?"}
    IN  IF I = {} THEN s
        ELSE SubSeq(s, 1, (CHOOSE k \in I : \A j \in I : k <= j) - 1)

\* (&url.URL{Path: path, RawQuery: query}).String(), and path + "?" + queryString
WithQuery(path, query) == IF query = <<>> THEN path ELSE path \o <<"?">> \o query

\* ---- the server
\* The request the wrappers make: path /c/m with one query parameter.
ReqPath == <<"/", "c", "/", "m">>
ReqQuery == <<"l">>

PageToken(k) == <<"p1", "p2", "p3", "p4", "p5">>[k]
Link(rel, url) == [rel |-> rel, url |-> url]

\* Page k of a chain of n pages; with sub, the pages after the first live one
\* directory below it and link to each other relative to their own directory.
PageUrl(k, sub) ==
    IF k = 1 THEN WithQuery(ReqPath, ReqQuery)
    ELSE (IF sub THEN <<"/", "c", "/", "s", "/", "m">> ELSE ReqPath) \o <<"?", PageToken(k)>>
PageLinks(k, n, sub) ==
    <<Link("first", (IF sub /\ k > 1 THEN <<"..">> ELSE <<".">>) \o <<"/", "m", "?">> \o ReqQuery),
      Link("current", <<".", "/", "m", "?", PageToken(k)>>)>>
      \o (IF k < n
          THEN <<Link("next", (IF sub /\ k = 1 THEN <<".", "/", "s">> ELSE <<".">>)
                                  \o <<"/", "m", "?", PageToken(k + 1)>>)>>
          ELSE <<>>)
PageItems(k, len) == [i \in 1..len |-> 10 * k + (i - 1)]
Page(k, n, len, sub, bad) ==
    [url |-> PageUrl(k, sub), links |-> PageLinks(k, n, sub),
     items |-> PageItems(k, len), bad |-> bad, nil |-> FALSE]

\* a page outside the chain, at a URL the chain never links to
Decoy(url, item) ==
    [url |-> url, links |-> <<>>, items |-> <<item>>, bad |-> FALSE, nil |-> FALSE]

\* The lengths of the pages of a chain. Only the items wrapper looks at the
\* length of a page; for the others every page holds one item.
Shapes(mode) ==
    IF mode = "items" THEN {s \in SeqsUpTo(0..MaxPageLen, MaxPages) : Len(s) >= 1}
    ELSE {[k \in 1..n |-> 1] : n \in 1..MaxPages}

\* the chains, with the body of the first or second page undecodable, or none
Servers(mode) ==
    {[chain |-> [k \in 1..Len(s) |-> Page(k, Len(s), s[k], sub, k = b)],
      decoys |-> IF sub
                 THEN <<Decoy(<<"/", "m", "?">> \o ReqQuery, 99)>>
                          \o [k \in 1..(Len(s) - 2) |->
                                 Decoy(ReqPath \o <<"?", PageToken(k + 2)>>, 90 + k)]
                 ELSE <<>>] :
        s \in Shapes(mode), sub \in BOOLEAN, b \in 0..2}

\* queryFunc: the response of the server for a URL, or an error
Query(srv, url, fail) ==
    LET all == srv.chain \o srv.decoys
        I == {k \in 1..Len(all) : all[k].url = url}
    IN  IF fail THEN [res |-> NilRes, err |-> "requestFailed"]
        ELSE IF I = {} THEN [res |-> NilRes, err |-> "notFound"]
        ELSE [res |-> all[CHOOSE k \in I : TRUE], err |-> Nil]

\* decodeResp(res, into) for a response that is not nil: [items, err]
decodeResp(res) ==
    IF res.bad THEN [items |-> <<>>, err |-> "decodeFailed"]
    ELSE [items |-> res.items, err |-> Nil]

\* ---- PaginatedResultNew
\* the loop of goTo over p.res.Header["Link"]
RECURSIVE ApplyLinks(_, _)
ApplyLinks(p, links) ==
    IF links = <<>> THEN p
    ELSE LET l == Head(links)
             path == pathJoin(p.basePath, l.url)
         IN  ApplyLinks(IF l.rel = "first" THEN [p EXCEPT !.firstLink = path]
                        ELSE IF l.rel = "next" THEN [p EXCEPT !.nextLink = path]
                        ELSE p,
                        Tail(links))

\* p.goTo(ctx, link): [p, err]
goTo(p, srv, link, fail) ==
    LET q == Query(srv, link, fail)
    IN  IF q.err # Nil THEN [p |-> [p EXCEPT !.res = q.res], err |-> q.err]
        ELSE [p |-> ApplyLinks([p EXCEPT !.res = q.res, !.nextLink = <<>>], q.res.links),
              err |-> Nil]

\* fault variant of First: p.first is not set
FirstKeepsFlag(p, srv, fail) == goTo(p, srv, p.firstLink, fail)

\* p.First(ctx): [p, err]
First(p, srv, fail) == goTo([p EXCEPT !.first = TRUE], srv, p.firstLink, fail)

\* p.load(ctx, r): [p, err]
load(p, srv, path, query, fail) ==
    First([p EXCEPT !.basePath = pathDir(path), !.firstLink = WithQuery(path, query)],
          srv, fail)

\* fault variant of next: a page is requested although p.first is set
nextAlwaysRequests(p, srv, fail, pan) ==
    IF p.nextLink = <<>>
    THEN [p |-> p, ret |-> FALSE, reqs |-> 0, page |-> <<>>, failure |-> Nil, panic |-> FALSE]
    ELSE LET g == goTo(p, srv, p.nextLink, fail)
             d == decodeResp(g.p.res)
         IN  IF g.err # Nil
             THEN [p |-> [g.p EXCEPT !.err = g.err], ret |-> FALSE, reqs |-> 1,
                   page |-> <<>>, failure |-> g.err, panic |-> FALSE]
             ELSE [p |-> [g.p EXCEPT !.first = FALSE, !.err = d.err], ret |-> d.err = Nil,
                   reqs |-> 1, page |-> d.items, failure |-> d.err, panic |-> FALSE]

\* p.next(ctx, into): [p, ret, page] with the value decoded into `into`, the
\* number of requests made, the failure that made it return false, and panic.
\* decodeResp on the nil response that a failed First left behind either
\* panics (pan) or returns an error.
next(p, srv, fail, pan) ==
    IF ~p.first /\ p.nextLink = <<>>
    THEN [p |-> p, ret |-> FALSE, reqs |-> 0, page |-> <<>>, failure |-> Nil, panic |-> FALSE]
    ELSE LET g == IF p.first THEN [p |-> p, err |-> Nil] ELSE goTo(p, srv, p.nextLink, fail)
             reqs == IF p.first THEN 0 ELSE 1
             p1 == [g.p EXCEPT !.first = FALSE]
         IN  IF g.err # Nil
             THEN [p |-> [g.p EXCEPT !.err = g.err], ret |-> FALSE, reqs |-> reqs,
                   page |-> <<>>, failure |-> g.err, panic |-> FALSE]
             ELSE IF p1.res.nil
             THEN [p |-> [p1 EXCEPT !.err = IF pan THEN p1.err ELSE "decodeFailed"],
                   ret |-> FALSE, reqs |-> reqs, page |-> <<>>,
                   failure |-> IF pan THEN Nil ELSE "decodeFailed", panic |-> pan]
             ELSE LET d == decodeResp(p1.res)
                  IN  [p |-> [p1 EXCEPT !.err = d.err], ret |-> d.err = Nil, reqs |-> reqs,
                       page |-> d.items, failure |-> d.err, panic |-> FALSE]

\* fault variant of NextIndex: every call loads a page
NextIndexZero(nextItem, pageLen) == 0

\* nextItem = (nextItem + 1) % pageLen
NextIndex(nextItem, pageLen) == (nextItem + 1) % pageLen

HasNextLink(res) == \E k \in 1..Len(res.links) : res.links[k].rel = "next"

\* ---- PaginatedResult
\* p.paginationHeaders()[rel]: the url of the last matching Link header
Header(links, rel) ==
    LET I == {k \in 1..Len(links) : links[k].rel = rel}
    IN  IF I = {} THEN <<>> ELSE links[CHOOSE k \in I : \A j \in I : j <= k].url

buildPath(origPath, newRelativePath) ==
    pathJoin(pathDir(StripQuery(origPath)), newRelativePath)

\* newPaginatedResult(ctx, opts, req) with the path already built: [page, err]
newPaginatedResult(srv, builtPath, fail) ==
    LET q == Query(srv, builtPath, fail)
    IN  IF q.err # Nil THEN [page |-> NilRes, err |-> q.err]
        ELSE IF decodeResp(q.res).err # Nil
             THEN [page |-> NilRes, err |-> decodeResp(q.res).err]
        ELSE [page |-> [q.res EXCEPT !.url = builtPath], err |-> Nil]

\* ---- the paginator's actions
GInit ==
    /\ PIdle
    /\ QIdle
    /\ MIdle
    /\ HIdle
    /\ UIdle
    /\ OIdle
    /\ RIdle
    /\ WIdle
    /\ CIdle
    /\ LIdle
    /\ EIdle
    /\ DIdle
    /\ gmode \in {"pages", "items", "old"}
    /\ server \in Servers(gmode)
    /\ gstage = "init"
    /\ pg = NoPaginatedResultNew
    /\ it = NoItems
    /\ old = NoPaginatedResult
    /\ gcall = NoCall
    /\ gh = NoHistory
    /\ gpanic = FALSE

Call(op, r, p) ==
    [op |-> op, ret |-> r.ret, reqs |-> r.reqs, wasFirst |-> p.first,
     hadNext |-> HasNextLink(gh.loaded), page |-> r.page, failure |-> r.failure,
     calledNext |-> TRUE, ended |-> gh.ended, resNil |-> p.res.nil, prevOp |-> gcall.op]

\* the response p holds after a call, when the call received one
Loaded(p, reqs, failure) ==
    IF reqs > 0 /\ ~p.res.nil THEN p.res ELSE gh.loaded

\* the Pages and Items methods of a wrapper: p.load, or p.loadItems
GLoad(fail) ==
    /\ gmode \in {"pages", "items"}
    /\ gstage = "init"
    /\ LET r == load(pg, server, ReqPath, ReqQuery, fail)
       IN  /\ pg' = r.p
           /\ gstage' = IF r.err = Nil THEN "ready" ELSE "loadFailed"
           /\ gcall' = [NoCall EXCEPT !.op = "load", !.ret = r.err = Nil, !.reqs = 1,
                                      !.failure = r.err]
           /\ gh' = [gh EXCEPT !.loaded = r.p.res, !.initial = r.p.res]
    /\ UNCHANGED <<server, gmode, it, old, gpanic>>

\* the Next method of a pages wrapper: p.next(ctx, &items)
GPageNext(fail, pan) ==
    /\ gmode = "pages"
    /\ gstage = "ready"
    /\ ~gpanic
    /\ LET r == next(pg, server, fail, pan)
       IN  /\ pg' = r.p
           /\ gpanic' = r.panic
           /\ gcall' = Call("next", r, pg)
           /\ gh' = [gh EXCEPT !.loaded = Loaded(r.p, r.reqs, r.failure),
                               !.returned = IF r.ret THEN Append(@, r.page) ELSE @,
                               !.failed = @ \/ r.failure # Nil \/ r.panic,
                               !.exhausted = @ \/ (~r.ret /\ r.failure = Nil /\ ~r.panic)]
    /\ UNCHANGED <<server, gmode, gstage, it, old>>

\* the First method of a pages wrapper
GFirst(fail) ==
    /\ gmode = "pages"
    /\ gstage = "ready"
    /\ ~gpanic
    /\ LET r == First(pg, server, fail)
       IN  /\ pg' = r.p
           /\ gcall' = [NoCall EXCEPT !.op = "First", !.ret = r.err = Nil, !.reqs = 1,
                                      !.wasFirst = pg.first,
                                      !.hadNext = HasNextLink(gh.loaded),
                                      !.failure = r.err]
           /\ gh' = [gh EXCEPT !.loaded = Loaded(r.p, 1, r.err),
                               !.returned = <<>>,
                               !.failed = @ \/ r.err # Nil]
    /\ UNCHANGED <<server, gmode, gstage, it, old, gpanic>>

\* the Next method of an items wrapper: the function loadItems returned
GItemNext(fail, pan) ==
    /\ gmode = "items"
    /\ gstage = "ready"
    /\ ~gpanic
    /\ IF it.nextItem = 0
       THEN LET r == next(pg, server, fail, pan)
                pageLen == Len(r.page)
            IN  /\ pg' = r.p
                /\ gpanic' = r.panic
                /\ IF ~r.ret
                   THEN /\ it' = [it EXCEPT !.page = r.page]
                        /\ gcall' = Call("item", r, pg)
                        /\ gh' = [gh EXCEPT !.loaded = Loaded(r.p, r.reqs, r.failure),
                                            !.failed = @ \/ r.failure # Nil \/ r.panic,
                                            !.ended = TRUE]
                   ELSE IF pageLen = 0
                   THEN /\ it' = [it EXCEPT !.page = r.page, !.pageLen = pageLen]
                        /\ gcall' = [Call("item", r, pg) EXCEPT !.ret = FALSE]
                        /\ gh' = [gh EXCEPT !.loaded = Loaded(r.p, r.reqs, r.failure),
                                            !.ended = TRUE]
                   ELSE /\ it' = [page |-> r.page, pageLen |-> pageLen,
                                  nextItem |-> NextIndex(it.nextItem, pageLen)]
                        /\ gcall' = Call("item", r, pg)
                        /\ gh' = [gh EXCEPT !.loaded = Loaded(r.p, r.reqs, r.failure),
                                            !.yielded = Append(@, r.page[it.nextItem + 1])]
       ELSE /\ it' = [it EXCEPT !.nextItem = NextIndex(it.nextItem, it.pageLen)]
            /\ gcall' = [NoCall EXCEPT !.op = "item", !.ret = TRUE, !.page = it.page,
                                       !.hadNext = HasNextLink(gh.loaded),
                                       !.ended = gh.ended]
            /\ gh' = [gh EXCEPT !.yielded = Append(@, it.page[it.nextItem + 1])]
            /\ UNCHANGED <<pg, gpanic>>
    /\ UNCHANGED <<server, gmode, gstage, old>>

\* newPaginatedResult for the first page
GOldLoad(fail) ==
    /\ gmode = "old"
    /\ gstage = "init"
    /\ LET r == newPaginatedResult(server, WithQuery(ReqPath, ReqQuery), fail)
       IN  /\ old' = [page |-> r.page, prev |-> NilRes, err |-> r.err]
           /\ gstage' = IF r.err = Nil THEN "ready" ELSE "loadFailed"
           /\ gcall' = [NoCall EXCEPT !.op = "oldLoad", !.ret = r.err = Nil, !.reqs = 1,
                                      !.failure = r.err]
    /\ UNCHANGED <<server, gmode, pg, it, gh, gpanic>>

\* p.Next(ctx) on the current PaginatedResult; the caller goes on with the
\* page it returns, and keeps the current one when it returns none
GOldNext(fail) ==
    /\ gmode = "old"
    /\ gstage = "ready"
    /\ LET nextPath == Header(old.page.links, "next")
       IN  IF nextPath = <<>>
           THEN /\ old' = [old EXCEPT !.err = Nil]
                /\ gcall' = [NoCall EXCEPT !.op = "oldNext"]
           ELSE LET r == newPaginatedResult(server, buildPath(old.page.url, nextPath), fail)
                IN  /\ old' = IF r.err = Nil
                              THEN [page |-> r.page, prev |-> old.page, err |-> Nil]
                              ELSE [old EXCEPT !.err = r.err]
                    /\ gcall' = [NoCall EXCEPT !.op = "oldNext", !.ret = r.err = Nil,
                                               !.reqs = 1, !.failure = r.err]
    /\ UNCHANGED <<server, gmode, gstage, pg, it, gh, gpanic>>

GNext ==
    \/ \E fail \in BOOLEAN : GLoad(fail) /\ UNCHANGED <<pvars, qvars, mvars, hvars, uvars, ovars, rvars, wvars, cvars, lvars, evars, dvars>>
    \/ \E fail, pan \in BOOLEAN : GPageNext(fail, pan) /\ UNCHANGED <<pvars, qvars, mvars, hvars, uvars, ovars, rvars, wvars, cvars, lvars, evars, dvars>>
    \/ \E fail \in BOOLEAN : GFirst(fail) /\ UNCHANGED <<pvars, qvars, mvars, hvars, uvars, ovars, rvars, wvars, cvars, lvars, evars, dvars>>
    \/ \E fail, pan \in BOOLEAN : GItemNext(fail, pan) /\ UNCHANGED <<pvars, qvars, mvars, hvars, uvars, ovars, rvars, wvars, cvars, lvars, evars, dvars>>
    \/ \E fail \in BOOLEAN : GOldLoad(fail) /\ UNCHANGED <<pvars, qvars, mvars, hvars, uvars, ovars, rvars, wvars, cvars, lvars, evars, dvars>>
    \/ \E fail \in BOOLEAN : GOldNext(fail) /\ UNCHANGED <<pvars, qvars, mvars, hvars, uvars, ovars, rvars, wvars, cvars, lvars, evars, dvars>>

\* one paginator over one fixed server
SpecPaginator == GInit /\ [][GNext]_vars

\* ---------------------------------------------------------------- host router
\* NewRestHosts / NewRealtimeHosts and their methods are exercised by
\* hosts_test.go 10-166; the router is written here as section 4.B of the
\* specification describes it, with the options and defaults of state.go.
MaxFallbacks == 3
MaxTime == 15

restHost == "rest.ably.io"
realtimeHost == "realtime.ably.io"
DefaultFallbackRetryTimeout == 10
defaultFallbackHosts ==
    <<"a.ably-realtime.com", "b.ably-realtime.com", "c.ably-realtime.com",
      "d.ably-realtime.com", "e.ably-realtime.com">>

\* the fallback hosts of a run: the first MaxFallbacks of the defaults
FallbackHosts == SubSeq(defaultFallbackHosts, 1, MaxFallbacks)

\* the instants at which the router is called lie ClockStep minutes apart
ClockStep == 5

\* opts.FallbackRetryTimeout in minutes: 0 is the unset option
RetryTimeoutOptions == {0, 5}

fallbackRetryTimeoutAlwaysDefault(opts) ==
    DefaultFallbackRetryTimeout

fallbackRetryTimeout(opts) ==
    IF opts.FallbackRetryTimeout # 0
    THEN opts.FallbackRetryTimeout
    ELSE DefaultFallbackRetryTimeout

\* ---- ablyutil.Shuffle: for every index i, n is drawn from [0, len(l)-1) and
\* l[i], l[n] are exchanged; the set of the slices it can return. r.Intn
\* panics when len(l)-1 is 0, so a one-element slice has no result.
SwapOverwrites(l, i, n) ==
    [l EXCEPT ![i] = l[n]]

Swap(l, i, n) ==
    [l EXCEPT ![i] = l[n], ![n] = l[i]]

RECURSIVE ShuffleFrom(_, _)
ShuffleFrom(l, i) ==
    IF i > Len(l)
    THEN {l}
    ELSE UNION {ShuffleFrom(Swap(l, i, n), i + 1) : n \in 1..(Len(l) - 1)}

Shuffle(l) == ShuffleFrom(l, 1)

\* ---- the router
PrimaryHost(kind) == IF kind = "rest" THEN restHost ELSE realtimeHost

NewHosts(kind, opts, shuffled) ==
    [kind |-> kind, opts |-> opts, primary |-> PrimaryHost(kind),
     candidates |-> <<PrimaryHost(kind)>> \o shuffled,
     cache |-> [host |-> NoHost, deadline |-> 0],
     visited |-> {}, primaryFallbackHost |-> NoHost]

\* the cached host while its expiry has not passed; at the instant of the
\* expiry itself either answer is possible
CacheGet(r, t, atDeadline) ==
    IF r.cache.host = NoHost THEN NoHost
    ELSE IF t < r.cache.deadline THEN r.cache.host
    ELSE IF t > r.cache.deadline THEN NoHost
    ELSE IF atDeadline THEN r.cache.host ELSE NoHost

preferredHost(r, t, atDeadline) ==
    LET cached == CacheGet(r, t, atDeadline)
        host == IF cached # NoHost THEN cached
                ELSE IF r.primaryFallbackHost # NoHost THEN r.primaryFallbackHost
                ELSE r.primary
    IN  [r |-> [r EXCEPT !.visited = @ \cup {host}], ret |-> host]

Remaining(r) == SelectSeq(r.candidates, LAMBDA h : h \notin r.visited)

fallbackHost(r) ==
    IF Remaining(r) = <<>>
    THEN [r |-> r, ret |-> NoHost]
    ELSE [r |-> [r EXCEPT !.visited = @ \cup {Head(Remaining(r))}],
          ret |-> Head(Remaining(r))]

resetVisitedKeepsVisited(r) == r

resetVisited(r) == [r EXCEPT !.visited = {}]

cacheHost(r, h, t) ==
    [r EXCEPT !.cache = [host |-> h, deadline |-> t + fallbackRetryTimeout(r.opts)]]

setPrimaryFallbackHostDropsHost(r, h) == r

setPrimaryFallbackHost(r, h) == [r EXCEPT !.primaryFallbackHost = h]

\* ---- the router's actions
\* hosts handed to CacheHost and SetPrimaryFallbackHost by the tests
CachedHosts == {"b.ably-realtime.com", "custom-ably.rest"}
SharedHosts == {"custom-ably.realtime"}

\* the calls recorded for one retry cycle: the preferred host, every
\* candidate, the empty host
CycleCap == MaxFallbacks + 3

HInit ==
    /\ PIdle
    /\ QIdle
    /\ MIdle
    /\ GIdle
    /\ UIdle
    /\ OIdle
    /\ RIdle
    /\ WIdle
    /\ CIdle
    /\ LIdle
    /\ EIdle
    /\ DIdle
    /\ rt \in {NewHosts(k, [FallbackRetryTimeout |-> o], l) :
                 k \in {"rest", "realtime"}, o \in RetryTimeoutOptions,
                 l \in Shuffle(FallbackHosts)}
    /\ now = 0
    /\ hcall = NoHostCall
    /\ hh = NoHostHistory

\* the calls of a retry cycle are recorded while the cycle has the shape of
\* one request: preferredHost at most once and first, then fallbackHost
Record(h, op, host) ==
    IF h.mixed \/ (op = "preferredHost" /\ h.calls # <<>>)
    THEN [h EXCEPT !.calls = <<>>, !.mixed = TRUE]
    ELSE [h EXCEPT !.calls = Append(@, [op |-> op, host |-> host])]

HPreferredHost(atDeadline) ==
    /\ Len(hh.calls) < CycleCap
    /\ LET r == preferredHost(rt, now, atDeadline)
       IN  /\ rt' = r.r
           /\ hcall' = [op |-> "preferredHost", ret |-> r.ret]
           /\ hh' = Record(hh, "preferredHost", r.ret)
    /\ UNCHANGED now

HFallbackHost ==
    /\ Len(hh.calls) < CycleCap
    /\ LET r == fallbackHost(rt)
       IN  /\ rt' = r.r
           /\ hcall' = [op |-> "fallbackHost", ret |-> r.ret]
           /\ hh' = Record(hh, "fallbackHost", r.ret)
    /\ UNCHANGED now

HCacheHost(h) ==
    /\ rt' = cacheHost(rt, h, now)
    /\ hcall' = [op |-> "cacheHost", ret |-> NoHost]
    /\ hh' = [hh EXCEPT !.cached = h, !.cachedAt = now]
    /\ UNCHANGED now

HResetVisited ==
    /\ rt' = resetVisited(rt)
    /\ hcall' = [op |-> "resetVisited", ret |-> NoHost]
    /\ hh' = [hh EXCEPT !.calls = <<>>, !.mixed = FALSE,
                        !.reset = IF rt.visited = {} THEN "clean" ELSE "visited"]
    /\ UNCHANGED now

HSetPrimaryFallbackHost(h) ==
    /\ rt.kind = "rest"
    /\ rt' = setPrimaryFallbackHost(rt, h)
    /\ hcall' = [op |-> "setPrimaryFallbackHost", ret |-> NoHost]
    /\ hh' = [hh EXCEPT !.shared = h]
    /\ UNCHANGED now

HTick ==
    /\ now + ClockStep <= MaxTime
    /\ now' = now + ClockStep
    /\ UNCHANGED <<rt, hcall, hh>>

HNext ==
    \/ \E atDeadline \in BOOLEAN : HPreferredHost(atDeadline) /\ UNCHANGED <<pvars, qvars, mvars, gvars, uvars, ovars, rvars, wvars, cvars, lvars, evars, dvars>>
    \/ HFallbackHost /\ UNCHANGED <<pvars, qvars, mvars, gvars, uvars, ovars, rvars, wvars, cvars, lvars, evars, dvars>>
    \/ \E h \in CachedHosts : HCacheHost(h) /\ UNCHANGED <<pvars, qvars, mvars, gvars, uvars, ovars, rvars, wvars, cvars, lvars, evars, dvars>>
    \/ HResetVisited /\ UNCHANGED <<pvars, qvars, mvars, gvars, uvars, ovars, rvars, wvars, cvars, lvars, evars, dvars>>
    \/ \E h \in SharedHosts : HSetPrimaryFallbackHost(h) /\ UNCHANGED <<pvars, qvars, mvars, gvars, uvars, ovars, rvars, wvars, cvars, lvars, evars, dvars>>
    \/ HTick /\ UNCHANGED <<pvars, qvars, mvars, gvars, uvars, ovars, rvars, wvars, cvars, lvars, evars, dvars>>

SpecHosts == HInit /\ [][HNext]_vars

\* ---------------------------------------------------------------- ablyutil.Shuffle, step by step
MaxShuffleLen == 3

ShuffleHosts == {defaultFallbackHosts[k] : k \in 1..3}
ShuffleInputs == UNION {[1..n -> ShuffleHosts] : n \in 0..MaxShuffleLen}

\* rand.Intn(n): a value of [0, n); it panics when n <= 0
Intn(n) == 0..(n - 1)
IntnPanics(n) == n <= 0

UInit ==
    /\ PIdle
    /\ QIdle
    /\ MIdle
    /\ GIdle
    /\ HIdle
    /\ OIdle
    /\ RIdle
    /\ WIdle
    /\ CIdle
    /\ LIdle
    /\ EIdle
    /\ DIdle
    /\ shIn \in ShuffleInputs
    /\ shL = shIn
    /\ shI = 0
    /\ shState = "running"

\* one iteration of the loop: i is shI, 0-based as in the code
UIterate ==
    /\ shState = "running"
    /\ shI < Len(shL)
    /\ IF IntnPanics(Len(shL) - 1)
       THEN /\ shState' = "panicked"
            /\ UNCHANGED <<shIn, shL, shI>>
       ELSE /\ \E n \in Intn(Len(shL) - 1) : shL' = Swap(shL, shI + 1, n + 1)
            /\ shI' = shI + 1
            /\ UNCHANGED <<shIn, shState>>

UReturn ==
    /\ shState = "running"
    /\ shI = Len(shL)
    /\ shState' = "returned"
    /\ UNCHANGED <<shIn, shL, shI>>

UNext ==
    \/ UIterate /\ UNCHANGED <<pvars, qvars, mvars, gvars, hvars, ovars, rvars, wvars, cvars, lvars, evars, dvars>>
    \/ UReturn /\ UNCHANGED <<pvars, qvars, mvars, gvars, hvars, ovars, rvars, wvars, cvars, lvars, evars, dvars>>

SpecShuffle == UInit /\ [][UNext]_vars

\* ---------------------------------------------------------------- endpoint URLs
\* Strings are sequences of atoms that are never split or merged, so that
\* two strings are equal exactly when their sequences are.
HostOptions(defaultHost) ==
    {<<>>, <<defaultHost>>, <<"custom.example.com">>,
     <<"sandbox", "-", defaultHost>>, <<"::1">>}
EnvironmentOptions == {<<>>, <<"production">>, <<"sandbox">>}
PortOptions == {0, 8080}
TLSPortOptions == {0, 8443}

ClientOptions ==
    [RESTHost : HostOptions(restHost), RealtimeHost : HostOptions(realtimeHost),
     Environment : EnvironmentOptions, NoTLS : BOOLEAN,
     Port : PortOptions, TLSPort : TLSPortOptions]

resolveHostPrefixesProduction(host, environment, defaultHost) ==
    LET h == IF host = <<>> THEN defaultHost ELSE host
    IN  IF h = defaultHost /\ environment # <<>>
        THEN environment \o <<"-">> \o h
        ELSE h

resolveHost(host, environment, defaultHost) ==
    LET h == IF host = <<>> THEN defaultHost ELSE host
    IN  IF h = defaultHost /\ environment # <<>> /\ environment # <<"production">>
        THEN environment \o <<"-">> \o h
        ELSE h

\* strconv.FormatInt(n, 10) for n >= 0
Digit(d) == <<"0", "1", "2", "3", "4", "5", "6", "7", "8", "9">>[d + 1]
RECURSIVE FormatInt(_)
FormatInt(n) ==
    IF n < 10 THEN <<Digit(n)>> ELSE FormatInt(n \div 10) \o <<Digit(n % 10)>>

\* net.JoinHostPort: a host that holds a colon is put in brackets
HasColon(host) == \E k \in DOMAIN host : host[k] \in {":", "::1"}
JoinHostPort(host, port) ==
    IF HasColon(host)
    THEN <<"[">> \o host \o <<"]", ":">> \o port
    ELSE host \o <<":">> \o port

URLOf(o, host, plain, tls) ==
    IF o.NoTLS
    THEN <<plain>> \o JoinHostPort(host, FormatInt(IF o.Port = 0 THEN 80 ELSE o.Port))
    ELSE <<tls>> \o JoinHostPort(host, FormatInt(IF o.TLSPort = 0 THEN 443 ELSE o.TLSPort))

restURL(o) ==
    LET host == resolveHost(o.RESTHost, o.Environment, <<restHost>>)
    IN  [kind |-> "rest", host |-> host, url |-> URLOf(o, host, "http://", "https://")]

realtimeURL(o) ==
    LET host == resolveHost(o.RealtimeHost, o.Environment, <<realtimeHost>>)
    IN  [kind |-> "realtime", host |-> host, url |-> URLOf(o, host, "ws://", "wss://")]

OInit ==
    /\ PIdle
    /\ QIdle
    /\ MIdle
    /\ GIdle
    /\ HIdle
    /\ UIdle
    /\ RIdle
    /\ WIdle
    /\ CIdle
    /\ LIdle
    /\ EIdle
    /\ DIdle
    /\ options \in ClientOptions
    /\ resolved = NoURL

ORestURL ==
    /\ resolved' = restURL(options)
    /\ UNCHANGED options

ORealtimeURL ==
    /\ resolved' = realtimeURL(options)
    /\ UNCHANGED options

ONext ==
    \/ ORestURL /\ UNCHANGED <<pvars, qvars, mvars, gvars, hvars, uvars, rvars, wvars, cvars, lvars, evars, dvars>>
    \/ ORealtimeURL /\ UNCHANGED <<pvars, qvars, mvars, gvars, hvars, uvars, rvars, wvars, cvars, lvars, evars, dvars>>

SpecURL == OInit /\ [][ONext]_vars

\* ---------------------------------------------------------------- errResult
\* A publish makes a result with newErrResult and hands its channel, of
\* capacity 1, to Enqueue; chans[c] holds every value sent to channel c, of
\* which results[c].recvd have been received.
MaxResults == 2

ResultChs == 0..(MaxResults - 1)
ResultSerials == 0..1
ResultCounts == 1..2
Canceled == "context.Canceled"

\* the values channel c holds: sent and not yet received
Buffered(cs, rs, c) == SubSeq(cs[c], rs[c].recvd + 1, Len(cs[c]))

newErrResult ==
    [made |-> TRUE, err |-> Nil, listen |-> TRUE, recvd |-> 0,
     outcome |-> NoOutcome, cancelled |-> FALSE, queued |-> FALSE]

WaitKeepsListening(r, buf, ctxDone, recv) ==
    IF ~r.listen THEN r
    ELSE IF recv THEN [r EXCEPT !.listen = FALSE, !.err = Head(buf), !.recvd = @ + 1,
                                !.outcome = Head(buf)]
    ELSE [r EXCEPT !.err = Canceled, !.cancelled = TRUE]

WaitReadsContext(r, buf, ctxDone, recv) ==
    IF ~r.listen THEN [r EXCEPT !.err = IF ctxDone THEN Canceled ELSE @]
    ELSE IF recv THEN [r EXCEPT !.listen = FALSE, !.err = Head(buf), !.recvd = @ + 1,
                                !.outcome = Head(buf)]
    ELSE [r EXCEPT !.listen = FALSE, !.err = Canceled, !.cancelled = TRUE]

\* errResult.Wait on r, whose channel holds buf, with a context that is
\* cancelled or not; recv says which case the select takes: the receive from
\* the channel, or ctx.Done()
Wait(r, buf, ctxDone, recv) ==
    IF ~r.listen THEN r
    ELSE IF recv THEN [r EXCEPT !.listen = FALSE, !.err = Head(buf), !.recvd = @ + 1,
                                !.outcome = Head(buf)]
    ELSE [r EXCEPT !.listen = FALSE, !.err = Canceled, !.cancelled = TRUE]

RInit ==
    /\ QIdle
    /\ MIdle
    /\ GIdle
    /\ HIdle
    /\ UIdle
    /\ OIdle
    /\ WIdle
    /\ CIdle
    /\ LIdle
    /\ EIdle
    /\ DIdle
    /\ queue = <<>>
    /\ chans = [c \in ResultChs |-> <<>>]
    /\ nextCh = 0
    /\ panicked = FALSE
    /\ lastOp = NoOp
    /\ results = [c \in ResultChs |-> NoResult]
    /\ lastWait = NoWait

\* a publish with serial s: newErrResult, then q.Enqueue(msg, listen)
RPublish(s) ==
    /\ nextCh < MaxResults
    /\ EnqueueCall(s, nextCh)
    /\ results' = [results EXCEPT ![nextCh] = newErrResult]
    /\ UNCHANGED <<lastOp, lastWait>>

\* res.Wait(ctx) on the result of channel c; ctxDone says whether ctx is
\* cancelled when the select is reached. A call with an empty channel and a
\* live context blocks, and is taken when one of the two becomes ready.
RWait(c, ctxDone, recv) ==
    /\ results[c].made
    /\ LET r == results[c]
           buf == Buffered(chans, results, c)
       IN  /\ r.listen => (IF recv THEN buf # <<>> ELSE ctxDone)
           /\ ~r.listen => recv
           /\ results' = [results EXCEPT ![c] =
                            [Wait(r, buf, ctxDone, recv) EXCEPT
                                !.queued = IF r.listen /\ ~recv
                                           THEN \E k \in DOMAIN queue : queue[k].ch = c
                                           ELSE @]]
           /\ lastWait' = [ch |-> c, ret |-> Wait(r, buf, ctxDone, recv).err,
                           ctxDone |-> ctxDone, first |-> r.listen]
    /\ UNCHANGED pvars

RNext ==
    \/ \E s \in ResultSerials : RPublish(s) /\ UNCHANGED <<qvars, mvars, gvars, hvars, uvars, ovars, wvars, cvars, lvars, evars, dvars>>
    \/ \E s \in ResultSerials, n \in ResultCounts, e \in ErrorInfos :
          AckCall(s, n, e) /\ UNCHANGED <<lastOp, qvars, mvars, gvars, hvars, uvars, ovars, rvars, wvars, cvars, lvars, evars, dvars>>
    \/ \E s \in ResultSerials, n \in ResultCounts, e \in ErrorInfos :
          NackCall(s, n, e) /\ UNCHANGED <<lastOp, qvars, mvars, gvars, hvars, uvars, ovars, rvars, wvars, cvars, lvars, evars, dvars>>
    \/ \E c \in ResultChs, ctxDone, recv \in BOOLEAN :
          RWait(c, ctxDone, recv) /\ UNCHANGED <<qvars, mvars, gvars, hvars, uvars, ovars, wvars, cvars, lvars, evars, dvars>>

SpecResult == RInit /\ [][RNext]_vars

\* ---------------------------------------------------------------- goWaiter
MaxWaits == 3

\* the errors f can return
WaiterErrors == {Nil, "E1", "E2"}

\* a receive from the channel err: the value it holds, or the zero value of
\* error once it is closed and empty
Receive(w) == IF w.buf # <<>> THEN Head(w.buf) ELSE Nil
CanReceive(w) == w.buf # <<>> \/ w.closed

\* goWaiter(f), with f returning e: the channel is made, the goroutine started
WInit ==
    /\ PIdle
    /\ QIdle
    /\ MIdle
    /\ GIdle
    /\ HIdle
    /\ UIdle
    /\ OIdle
    /\ RIdle
    /\ CIdle
    /\ LIdle
    /\ EIdle
    /\ DIdle
    /\ gw \in {[f |-> e, stage |-> "running", buf |-> <<>>, closed |-> FALSE] :
                 e \in WaiterErrors}
    /\ gwWait = NoWaiterCall

\* the goroutine: f returns, err <- f(), the deferred close(err)
WReturn ==
    /\ gw.stage = "running"
    /\ gw' = [gw EXCEPT !.stage = "returned"]
    /\ UNCHANGED gwWait

WSend ==
    /\ gw.stage = "returned"
    /\ gw' = [gw EXCEPT !.stage = "sent", !.buf = Append(@, gw.f)]
    /\ UNCHANGED gwWait

WClose ==
    /\ gw.stage = "sent"
    /\ gw' = [gw EXCEPT !.stage = "closed", !.closed = TRUE]
    /\ UNCHANGED gwWait

\* the resultFunc: the select takes the receive (recv) or ctx.Done()
WWait(ctxDone, recv) ==
    /\ gwWait.count < MaxWaits
    /\ IF recv THEN CanReceive(gw) ELSE ctxDone
    /\ gw' = IF recv THEN [gw EXCEPT !.buf = IF @ = <<>> THEN @ ELSE Tail(@)] ELSE gw
    /\ gwWait' = [count |-> gwWait.count + 1,
                  ret |-> IF recv THEN Receive(gw) ELSE Canceled,
                  ctxDone |-> ctxDone,
                  finished |-> gw.stage # "running"]

WNext ==
    \/ WReturn /\ UNCHANGED <<pvars, qvars, mvars, gvars, hvars, uvars, ovars, rvars, cvars, lvars, evars, dvars>>
    \/ WSend /\ UNCHANGED <<pvars, qvars, mvars, gvars, hvars, uvars, ovars, rvars, cvars, lvars, evars, dvars>>
    \/ WClose /\ UNCHANGED <<pvars, qvars, mvars, gvars, hvars, uvars, ovars, rvars, cvars, lvars, evars, dvars>>
    \/ \E ctxDone, recv \in BOOLEAN :
          WWait(ctxDone, recv) /\ UNCHANGED <<pvars, qvars, mvars, gvars, hvars, uvars, ovars, rvars, cvars, lvars, evars, dvars>>

SpecWaiter == WInit /\ [][WNext]_vars

\* ---------------------------------------------------------------- ScopeParams, PaginateParams
\* A time.Time is the number of seconds since the epoch, 0 standing for the
\* zero time; url.Values is a set of [key, value], Set replacing the key's value.
MaxScopeTime == 2

ScopeTimes == 0..MaxScopeTime
Units == {<<>>, <<"minute">>}
Limits == {-1, 0, 5}
Directions == {<<>>, <<"backwards">>, <<"forwards">>, <<"sideways">>}

IsZero(t) == t = 0
After(t, u) == t > u
unixMilli(t) == t * 1000
Set(out, k, v) == {e \in out : e.key # k} \cup {[key |-> k, value |-> v]}

\* ScopeParams.EncodeValues(out): [out, err]
ScopeEncodeValues(sp, out) ==
    IF ~IsZero(sp.Start) /\ ~IsZero(sp.End) /\ After(sp.Start, sp.End)
    THEN [out |-> out, err |-> "start mzust be before end"]
    ELSE LET o1 == IF ~IsZero(sp.Start)
                   THEN Set(out, "start", FormatInt(unixMilli(sp.Start))) ELSE out
             o2 == IF ~IsZero(sp.End)
                   THEN Set(o1, "end", FormatInt(unixMilli(sp.End))) ELSE o1
             o3 == IF sp.Unit # <<>> THEN Set(o2, "unit", sp.Unit) ELSE o2
         IN  [out |-> o3, err |-> Nil]

\* PaginateParams.EncodeValues(out): [out, err]; the error of
\* p.ScopeParams.EncodeValues(out) is dropped
PaginateEncodeValues(pp, out) ==
    LET o1 == IF pp.Limit < 0 THEN Set(out, "limit", FormatInt(100))
              ELSE IF pp.Limit # 0 THEN Set(out, "limit", FormatInt(pp.Limit))
              ELSE out
    IN  IF pp.Direction = <<>>
        THEN [out |-> ScopeEncodeValues(pp, o1).out, err |-> Nil]
        ELSE IF pp.Direction \in {<<"backwards">>, <<"forwards">>}
        THEN [out |-> ScopeEncodeValues(pp, Set(o1, "direction", pp.Direction)).out,
              err |-> Nil]
        ELSE [out |-> o1, err |-> "Invalid value for direction"]

EInit ==
    /\ PIdle
    /\ QIdle
    /\ MIdle
    /\ GIdle
    /\ HIdle
    /\ UIdle
    /\ OIdle
    /\ RIdle
    /\ WIdle
    /\ CIdle
    /\ LIdle
    /\ DIdle
    /\ pparams \in [Start : ScopeTimes, End : ScopeTimes, Unit : Units,
                    Limit : Limits, Direction : Directions]
    /\ encoded = NoEncoded

\* p.EncodeValues(&out) on empty url.Values
EEncodeValues ==
    /\ ~encoded.called
    /\ LET r == PaginateEncodeValues(pparams, {})
       IN  encoded' = [called |-> TRUE, err |-> r.err, out |-> r.out]
    /\ UNCHANGED pparams

ENext ==
    \/ EEncodeValues /\ UNCHANGED <<pvars, qvars, mvars, gvars, hvars, uvars, ovars, rvars, wvars, cvars, lvars, dvars>>

SpecParams == EInit /\ [][ENext]_vars

\* ---------------------------------------------------------------- applyOptionsWithDefaults
\* clientOptions with its embedded authOptions; a *TokenParams is nil or
\* points to a TokenParams with a TTL. An option is [name, str, num], the
\* argument being str or num by the option's type.
MaxOptions == 2

DefaultTokenTTL == 3600000
NilTokenParams == [nil |-> TRUE, TTL |-> 0]
TokenParams(ttl) == [nil |-> FALSE, TTL |-> ttl]

\* var defaultOptions: the fields the options below write, authOptions embedded
DefaultOptions ==
    [set |-> TRUE,
     authOptions |-> [Key |-> "", DefaultTokenParams |-> NilTokenParams],
     RESTHost |-> restHost, Port |-> 80]

Option(name, str, num) == [name |-> name, str |-> str, num |-> num]
ClientOptionValues ==
    {Option("WithRESTHost", "custom-ably.rest", 0), Option("WithPort", "", 8080),
     Option("WithKey", "abc:def", 0), Option("WithDefaultTokenParams", "", 5)}
AuthOptionValues ==
    {Option("AuthWithKey", "abc:def", 0), Option("AuthWithDefaultTokenParams", "", 5)}

\* set(&to) for an AuthOption, on an authOptions
ApplyAuthOption(to, o) ==
    IF o.name = "AuthWithKey" THEN [to EXCEPT !.Key = o.str]
    ELSE [to EXCEPT !.DefaultTokenParams = TokenParams(o.num)]

\* set(&to) for a ClientOption, on a clientOptions
ApplyClientOption(to, o) ==
    IF o.name = "WithRESTHost" THEN [to EXCEPT !.RESTHost = o.str]
    ELSE IF o.name = "WithPort" THEN [to EXCEPT !.Port = o.num]
    ELSE IF o.name = "WithKey" THEN [to EXCEPT !.authOptions.Key = o.str]
    ELSE [to EXCEPT !.authOptions.DefaultTokenParams = TokenParams(o.num)]

RECURSIVE ApplyClientOptions(_, _)
ApplyClientOptions(to, os) ==
    IF os = <<>> THEN to ELSE ApplyClientOptions(ApplyClientOption(to, Head(os)), Tail(os))

RECURSIVE ApplyAuthOptions(_, _)
ApplyAuthOptions(to, os) ==
    IF os = <<>> THEN to ELSE ApplyAuthOptions(ApplyAuthOption(to, Head(os)), Tail(os))

\* if to.DefaultTokenParams == nil { to.DefaultTokenParams = &TokenParams{TTL: ...} }
WithDefaultTTL(a) ==
    IF a.DefaultTokenParams.nil
    THEN [a EXCEPT !.DefaultTokenParams = TokenParams(DefaultTokenTTL)]
    ELSE a

\* fault variant: to is the package variable itself, not a copy of it
applyOptionsOnDefaults(d, os) ==
    LET to == ApplyClientOptions(d, os)
        r == [to EXCEPT !.authOptions = WithDefaultTTL(@)]
    IN  [ret |-> r, defaultOptions |-> r]

\* applyOptionsWithDefaults(os...): to := defaultOptions copies the struct;
\* [ret, defaultOptions] with the package variable after the call
applyOptionsWithDefaults(d, os) ==
    LET to == ApplyClientOptions(d, os)
    IN  [ret |-> [to EXCEPT !.authOptions = WithDefaultTTL(@)], defaultOptions |-> d]

\* applyAuthOptionsWithDefaults(os...): to := defaultOptions.authOptions
applyAuthOptionsWithDefaults(d, os) ==
    [ret |-> WithDefaultTTL(ApplyAuthOptions(d.authOptions, os)), defaultOptions |-> d]

DInit ==
    /\ PIdle
    /\ QIdle
    /\ MIdle
    /\ GIdle
    /\ HIdle
    /\ UIdle
    /\ OIdle
    /\ RIdle
    /\ WIdle
    /\ CIdle
    /\ LIdle
    /\ EIdle
    /\ defaultOptions = DefaultOptions
    /\ built = <<>>

\* the last two calls
LastTwo(calls) == IF Len(calls) > 2 THEN Tail(calls) ELSE calls

DApplyOptions(os) ==
    /\ LET r == applyOptionsWithDefaults(defaultOptions, os)
       IN  /\ defaultOptions' = r.defaultOptions
           /\ built' = LastTwo(Append(built, [kind |-> "client", os |-> os,
                                              auth |-> r.ret.authOptions,
                                              RESTHost |-> r.ret.RESTHost,
                                              Port |-> r.ret.Port]))

DApplyAuthOptions(os) ==
    /\ LET r == applyAuthOptionsWithDefaults(defaultOptions, os)
       IN  /\ defaultOptions' = r.defaultOptions
           /\ built' = LastTwo(Append(built, [kind |-> "auth", os |-> os,
                                              auth |-> r.ret,
                                              RESTHost |-> "", Port |-> 0]))

DNext ==
    \/ \E os \in SeqsUpTo(ClientOptionValues, MaxOptions) :
          DApplyOptions(os) /\ UNCHANGED <<pvars, qvars, mvars, gvars, hvars, uvars, ovars, rvars, wvars, cvars, lvars, evars>>
    \/ \E os \in SeqsUpTo(AuthOptionValues, MaxOptions) :
          DApplyAuthOptions(os) /\ UNCHANGED <<pvars, qvars, mvars, gvars, hvars, uvars, ovars, rvars, wvars, cvars, lvars, evars>>

SpecOptions == DInit /\ [][DNext]_vars

\* ---------------------------------------------------------------- msgQueue under concurrent callers
\* Every caller runs one call at a time: it enters the call when q.mtx.Lock()
\* returns, runs the body one statement at a time, and unlocks. mine is what the caller has
\* appended so far, in order.
MaxCallers == 2
MaxQueued == 3

Callers == 1..MaxCallers
QueuedIds == 0..(MaxQueued - 1)
IdleCall == [op |-> "none", pc |-> "idle", msg |-> 0, rng |-> <<>>, i |-> 0,
             err |-> Nil, mine |-> <<>>]

\* fault variant of Lock: the mutex is taken without waiting for its holder
CanLockAlways(m) == TRUE

\* q.mtx.Lock() returns when no caller holds the mutex
CanLock(m) == m = NoCaller

CInit ==
    /\ QIdle
    /\ MIdle
    /\ GIdle
    /\ HIdle
    /\ UIdle
    /\ OIdle
    /\ RIdle
    /\ WIdle
    /\ LIdle
    /\ EIdle
    /\ DIdle
    /\ queue = <<>>
    /\ chans = [c \in QueuedIds |-> <<>>]
    /\ nextCh = 0
    /\ panicked = FALSE
    /\ lastOp = NoOp
    /\ mtx = NoCaller
    /\ procs = [p \in Callers |-> IdleCall]

\* caller p enters Enqueue(msg, listen), Flush() or Fail(err): q.mtx.Lock()
\* returns; a range loop evaluates q.queue once, when it starts
CLock(p, op, err) ==
    /\ procs[p].pc = "idle"
    /\ op = "Enqueue" => nextCh < MaxQueued
    /\ CanLock(mtx)
    /\ mtx' = p
    /\ procs' = [procs EXCEPT ![p] = [@ EXCEPT !.op = op, !.pc = "body", !.err = err,
                                               !.msg = IF op = "Enqueue" THEN nextCh ELSE 0,
                                               !.rng = outq, !.i = 0]]
    /\ nextCh' = IF op = "Enqueue" THEN nextCh + 1 ELSE nextCh
    /\ UNCHANGED <<queue, chans, panicked, lastOp, qvars>>

\* Enqueue: q.queue = append(q.queue, msgch{msg, listen})
CAppend(p) ==
    /\ procs[p].pc = "body"
    /\ procs[p].op = "Enqueue"
    /\ outq' = QueueEnqueue(outq, procs[p].msg, procs[p].msg)
    /\ procs' = [procs EXCEPT ![p] = [@ EXCEPT !.pc = "unlock",
                                               !.mine = Append(@, procs[p].msg)]]
    /\ UNCHANGED <<pvars, frames, msgSerial, mtx>>

\* Flush: one q.conn.send(msgch.msg, msgch.ch) of the loop
CSend(p) ==
    /\ procs[p].pc = "body"
    /\ procs[p].op = "Flush"
    /\ procs[p].i < Len(procs[p].rng)
    /\ LET st == ConnSend([frames |-> frames, msgSerial |-> msgSerial, queue |-> queue],
                           procs[p].rng[procs[p].i + 1])
       IN  /\ frames' = st.frames
           /\ msgSerial' = st.msgSerial
           /\ queue' = st.queue
    /\ procs' = [procs EXCEPT ![p] = [@ EXCEPT !.i = @ + 1]]
    /\ UNCHANGED <<chans, nextCh, panicked, lastOp, outq, mtx>>

\* Fail: one msgch.ch <- newError(90000, err) of the loop
CFailOne(p) ==
    /\ procs[p].pc = "body"
    /\ procs[p].op = "Fail"
    /\ procs[p].i < Len(procs[p].rng)
    /\ chans' = SendRange(chans, procs[p].rng, procs[p].i, procs[p].i + 1,
                          [code |-> 90000, err |-> procs[p].err])
    /\ procs' = [procs EXCEPT ![p] = [@ EXCEPT !.i = @ + 1]]
    /\ UNCHANGED <<queue, nextCh, panicked, lastOp, qvars, mtx>>

\* Flush and Fail, after the loop: q.queue = nil
CClear(p) ==
    /\ procs[p].pc = "body"
    /\ procs[p].op \in {"Flush", "Fail"}
    /\ procs[p].i = Len(procs[p].rng)
    /\ outq' = <<>>
    /\ procs' = [procs EXCEPT ![p] = [@ EXCEPT !.pc = "unlock", !.rng = <<>>, !.i = 0]]
    /\ UNCHANGED <<pvars, frames, msgSerial, mtx>>

\* q.mtx.Unlock(), and the call returns
CUnlock(p) ==
    /\ procs[p].pc = "unlock"
    /\ mtx' = NoCaller
    /\ procs' = [procs EXCEPT ![p] = [@ EXCEPT !.op = "none", !.pc = "idle", !.msg = 0,
                                               !.err = Nil]]
    /\ UNCHANGED <<pvars, qvars>>

CNext ==
    \/ \E p \in Callers : CLock(p, "Enqueue", Nil) /\ UNCHANGED <<mvars, gvars, hvars, uvars, ovars, rvars, wvars, lvars, evars, dvars>>
    \/ \E p \in Callers : CLock(p, "Flush", Nil) /\ UNCHANGED <<mvars, gvars, hvars, uvars, ovars, rvars, wvars, lvars, evars, dvars>>
    \/ \E p \in Callers, err \in ConnErrors :
          CLock(p, "Fail", err) /\ UNCHANGED <<mvars, gvars, hvars, uvars, ovars, rvars, wvars, lvars, evars, dvars>>
    \/ \E p \in Callers : CAppend(p) /\ UNCHANGED <<mvars, gvars, hvars, uvars, ovars, rvars, wvars, lvars, evars, dvars>>
    \/ \E p \in Callers : CSend(p) /\ UNCHANGED <<mvars, gvars, hvars, uvars, ovars, rvars, wvars, lvars, evars, dvars>>
    \/ \E p \in Callers : CFailOne(p) /\ UNCHANGED <<mvars, gvars, hvars, uvars, ovars, rvars, wvars, lvars, evars, dvars>>
    \/ \E p \in Callers : CClear(p) /\ UNCHANGED <<mvars, gvars, hvars, uvars, ovars, rvars, wvars, lvars, evars, dvars>>
    \/ \E p \in Callers : CUnlock(p) /\ UNCHANGED <<mvars, gvars, hvars, uvars, ovars, rvars, wvars, lvars, evars, dvars>>

SpecConcurrent == CInit /\ [][CNext]_vars

\* ---------------------------------------------------------------- listenResult
\* e.listenResult(expected, failed...): listener 0 is the Once listener of
\* the expected state, listener k that of failed[k]; changes is the channel.
MaxFailedStates == 2
MaxListenWaits == 2

ListenStates == {"attached", "failed", "suspended"}
Reasons == {Nil, "R1"}
StateChange(current, reason) == [Current |-> current, Reason |-> reason]

\* fault variant of the channel's capacity: room for one change
CapacityOne(l) == 1

\* make(channelStateChanges, 1+len(failed))
Capacity(l) == 1 + Len(l.failed)

EventOf(l, k) == IF k = 0 THEN l.expected ELSE l.failed[k]

\* e.Once(event, changes.Receive) for the expected and every failed state
Once(l) == [l EXCEPT !.listeners = 0..Len(l.failed)]

\* changes.Receive(change): the send to the channel, which blocks when it is full
changesReceive(l, change) ==
    IF Len(l.changes) < Capacity(l)
    THEN [l EXCEPT !.changes = Append(@, change), !.sent = @ + 1]
    ELSE [l EXCEPT !.blocked = TRUE]

\* the emitter delivers change to the listeners ks, in registration order; a
\* Once listener is removed when it is called
RECURSIVE Deliver(_, _, _)
Deliver(l, ks, change) ==
    IF ks = {} \/ l.blocked THEN l
    ELSE LET k == CHOOSE x \in ks : \A y \in ks : x <= y
         IN  Deliver(changesReceive([l EXCEPT !.listeners = @ \ {k}], change), ks \ {k}, change)

Emit(l, change) ==
    Deliver(l, {k \in l.listeners : EventOf(l, k) = change.Current}, change)

InternalError(kind) ==
    IF kind = "channel" THEN "ErrInternalChannelError" ELSE "ErrInternalConnectionError"

\* fault variant of the switch: a change without Reason counts as success
OutcomeNilWithoutReason(l, change) ==
    IF change.Current = l.expected THEN Nil ELSE change.Reason

\* the switch of the resultFunc on the change it received
Outcome(l, change) ==
    IF change.Current = l.expected THEN Nil
    ELSE IF change.Reason # Nil THEN change.Reason
    ELSE InternalError(l.kind)

\* the deferred calls of every off
Offs(l) == [l EXCEPT !.listeners = {}]

LInit ==
    /\ PIdle
    /\ QIdle
    /\ MIdle
    /\ GIdle
    /\ HIdle
    /\ UIdle
    /\ OIdle
    /\ RIdle
    /\ WIdle
    /\ CIdle
    /\ EIdle
    /\ DIdle
    /\ lr \in {Once([NoListenResult EXCEPT !.kind = k, !.expected = e, !.failed = f]) :
                 k \in {"channel", "connection"}, e \in ListenStates,
                 f \in SeqsUpTo(ListenStates, MaxFailedStates)}
    /\ lrWait = NoListenWait

\* the emitter emits a state change
LEmit(current, reason) ==
    /\ ~lr.blocked
    /\ lr' = Emit(lr, StateChange(current, reason))
    /\ UNCHANGED lrWait

\* Wait(ctx) on the result: the select takes the change (recv) or ctx.Done()
LWait(ctxDone, recv) ==
    /\ lrWait.count < MaxListenWaits
    /\ IF recv THEN lr.changes # <<>> ELSE ctxDone
    /\ lr' = Offs(IF recv THEN [lr EXCEPT !.changes = Tail(@)] ELSE lr)
    /\ lrWait' = IF recv
                 THEN [count |-> lrWait.count + 1, ret |-> Outcome(lr, Head(lr.changes)),
                       how |-> "change", cur |-> Head(lr.changes).Current,
                       reason |-> Head(lr.changes).Reason]
                 ELSE [count |-> lrWait.count + 1, ret |-> Canceled,
                       how |-> "ctx", cur |-> "none", reason |-> Nil]

LNext ==
    \/ \E current \in ListenStates, reason \in Reasons :
          LEmit(current, reason) /\ UNCHANGED <<pvars, qvars, mvars, gvars, hvars, uvars, ovars, rvars, wvars, cvars, evars, dvars>>
    \/ \E ctxDone, recv \in BOOLEAN :
          LWait(ctxDone, recv) /\ UNCHANGED <<pvars, qvars, mvars, gvars, hvars, uvars, ovars, rvars, wvars, cvars, evars, dvars>>

SpecListen == LInit /\ [][LNext]_vars

\* ---------------------------------------------------------------- claims: pending-ack queue
Entries(q) == {q[k] : k \in 1..Len(q)}
InQueue(e) == e \in Entries(queue)
Res(e) == chans[e.ch]
Sorted(q) == \A k \in 1..(Len(q) - 1) : q[k].serial < q[k + 1].serial

\* C1: an Ack (s, n) completes every queued entry with serial < s with an error,
\* exactly the queued entries with serial in [s, s+n) with success, and leaves
\* every entry with serial >= s+n queued and uncompleted.
C1_AckBySerialRange ==
    lastOp.op = "Ack" =>
        \A e \in Entries(lastOp.pre) :
            /\ e.serial < lastOp.serial =>
                   Len(Res(e)) = 1 /\ Res(e)[1] # Nil
            /\ (e.serial >= lastOp.serial /\ e.serial < lastOp.serial + lastOp.count) =>
                   Res(e) = <<Nil>>
            /\ e.serial >= lastOp.serial + lastOp.count =>
                   Res(e) = <<>> /\ InQueue(e)

\* C2: an Ack without error completes every queued entry with serial < s with
\* errSerialSkipped, removes it from the queue, and returns normally.
C2_AckSkipsLowerSerials ==
    (lastOp.op = "Ack" /\ lastOp.errInfo = NilErrorInfo) =>
        /\ ~panicked
        /\ \A e \in Entries(lastOp.pre) :
               e.serial < lastOp.serial =>
                   Res(e) = <<errSerialSkipped>> /\ ~InQueue(e)

\* C3: a Nack (s, n, err) completes every queued entry with serial < s+n with
\* err and removes it; every entry with serial >= s+n stays queued, uncompleted.
C3_NackBySerialRange ==
    lastOp.op = "Nack" =>
        \A e \in Entries(lastOp.pre) :
            /\ e.serial < lastOp.serial + lastOp.count =>
                   Res(e) = <<unwrapNil(lastOp.errInfo)>> /\ ~InQueue(e)
            /\ e.serial >= lastOp.serial + lastOp.count =>
                   Res(e) = <<>> /\ InQueue(e)

\* C4: after any sequence of Enqueue, Ack and Nack the queue is in strictly
\* increasing serial order (so no two entries share a serial).
C4_QueueStrictlySorted == Sorted(queue)

\* an Enqueue of a serial below the queue's last one has inserted an entry
C4_Witness ==
    /\ lastOp.op = "Enqueue"
    /\ Len(lastOp.pre) >= 2
    /\ lastOp.serial < lastOp.pre[Len(lastOp.pre)].serial
    /\ Len(queue) = Len(lastOp.pre) + 1

\* C5: an Ack with count > 0 whose serial is the head's completes the entries
\* [head, head+count) with the Ack's error, and with nil only if it has none.
C5_AckCarriesItsError ==
    (/\ lastOp.op = "Ack"
     /\ lastOp.count > 0
     /\ Len(lastOp.pre) > 0
     /\ lastOp.pre[1].serial = lastOp.serial) =>
        \A k \in 1..min(lastOp.count, Len(lastOp.pre)) :
            Res(lastOp.pre[k]) = <<unwrapNil(lastOp.errInfo)>>

\* C6 as stated: after the scenario serials 0, 1, 2 completed with success,
\* 3 and 4 with errSerialSkipped, 5 with the NACK's error, and the queue is empty.
C6_ScenarioAsStated ==
    lastOp.op = "Nack" =>
        /\ \A c \in 0..2 : chans[c] = <<Nil>>
        /\ \A c \in 3..4 : chans[c] = <<errSerialSkipped>>
        /\ chans[5] = <<unwrapNil(lastOp.errInfo)>>
        /\ queue = <<>>

\* C6 amended: after the scenario serials 0, 1, 2 completed with success,
\* serials 3, 4 and 5 all completed with the NACK's error, and the queue is empty.
C6_ScenarioNackError ==
    lastOp.op = "Nack" =>
        /\ \A c \in 0..2 : chans[c] = <<Nil>>
        /\ \A c \in 3..5 : chans[c] = <<unwrapNil(lastOp.errInfo)>>
        /\ queue = <<>>

C6_Witness ==
    /\ lastOp.op = "Nack"
    /\ lastOp.serial = 5
    /\ Len(lastOp.pre) = 3
    /\ chans[5] # <<>>

\* ---------------------------------------------------------------- claims: outbound queue
FramesOf(m) == {k \in 1..Len(frames) : frames[k].msg = m}
SerialOf(m) == frames[CHOOSE k \in FramesOf(m) : TRUE].serial

\* C7: Flush hands every queued message to the connection's send exactly once,
\* in the order of the queue, each with its own channel, and empties the queue.
C7_FlushSendsQueueInOrder ==
    lastOp.op = "Flush" =>
        /\ outq = <<>>
        /\ Len(frames) = lastOp.nframes + Len(lastOp.pre)
        /\ \A k \in 1..Len(lastOp.pre) :
               /\ frames[lastOp.nframes + k].msg = lastOp.pre[k].msg
               /\ frames[lastOp.nframes + k].ch = lastOp.pre[k].ch
               /\ Cardinality(FramesOf(lastOp.pre[k].msg)) = 1

C7_Witness ==
    /\ lastOp.op = "Flush"
    /\ Len(lastOp.pre) >= 2
    /\ lastOp.nframes >= 1

\* C8: Fail(err) completes every queued message exactly once with an error
\* wrapping err, sends none of them, and empties the queue; no message that
\* Fail completed is sent by a later Flush.
C8_FailCompletesAndDrops ==
    /\ lastOp.op = "Fail" =>
           /\ outq = <<>>
           /\ Len(frames) = lastOp.nframes
           /\ \A e \in Entries(lastOp.pre) :
                  /\ chans[e.ch] = <<[code |-> 90000, err |-> lastOp.err]>>
                  /\ FramesOf(e.msg) = {}
    /\ \A k \in 1..Len(frames) : chans[frames[k].ch] = <<>>

C8_Witness ==
    /\ lastOp.op = "Flush"
    /\ \E c \in MsgIds : chans[c] # <<>>
    /\ Len(lastOp.pre) >= 1
    /\ Len(frames) = lastOp.nframes + Len(lastOp.pre)

\* C9: each outbound publish frame carries the msgSerial of the previous one
\* plus one, and the messages a Flush drains get serials in their queue order.
C9_SerialsConsecutiveInQueueOrder ==
    /\ \A k \in 2..Len(frames) : frames[k].serial = frames[k - 1].serial + 1
    /\ lastOp.op = "Flush" =>
           \A j, k \in 1..Len(lastOp.pre) :
               j < k => SerialOf(lastOp.pre[j].msg) < SerialOf(lastOp.pre[k].msg)

C9_Witness ==
    /\ lastOp.op = "Flush"
    /\ Len(lastOp.pre) >= 2
    /\ Len(frames) >= 3
    /\ frames[1].msg > frames[Len(frames)].msg

\* ---------------------------------------------------------------- claims: codec
Accepted(d) ==
    \/ d.t = "string" /\ ValidString(d.b)
    \/ d.t = "bytes"
    \/ d.t = "json" /\ d.v.k \in {"object", "array"}

\* C10: for a message whose data is valid UTF-8 text, bytes, a JSON object or a
\* JSON array, and any cipher or none, encoding succeeds and decoding the result
\* with the same cipher gives the original data and an empty encoding.
C10_EncodeDecodeRoundTrip ==
    (Accepted(orig.Data) /\ orig.Encoding = <<>>) =>
        /\ cstage # "encodeFailed"
        /\ (cstage = "roundtrip" /\ dcipher = cipher) =>
               /\ cerr = Nil
               /\ msg.Data = orig.Data
               /\ msg.Encoding = <<>>

C10_Witness ==
    /\ cstage = "roundtrip"
    /\ dcipher = cipher
    /\ cipher # NoCipher
    /\ orig.Encoding = <<>>
    /\ orig.Data.t = "string"
    /\ Len(orig.Data.b) = 2
    /\ ValidString(orig.Data.b)
    /\ orig.Data.b[1] > 127

\* the message the last withDecodedData call was given
DecodeInput == IF cstage = "roundtrip" THEN withEncodedData(orig, cipher).m ELSE orig

\* the data after the tokens toks[j..Len(toks)] were applied to d, last one
\* first: [ok, d], ok being FALSE when one of them fails
RECURSIVE Applied(_, _, _, _)
Applied(d, toks, j, c) ==
    IF Len(toks) < j THEN [ok |-> TRUE, d |-> d]
    ELSE LET r == DecodeToken(d, toks[Len(toks)], c)
         IN  IF ~r.ok THEN [ok |-> FALSE, d |-> d]
             ELSE Applied(r.d, SubSeq(toks, 1, Len(toks) - 1), j, c)

\* C11: when withDecodedData returns an error, some token k of the chain fails
\* on the data that the tokens to its right produced, and the returned message
\* holds that data and, as its encoding, the chain up to and including token k.
C11_DecodeErrorKeepsPartialResult ==
    (cstage \in {"decoded", "roundtrip"} /\ cerr # Nil) =>
        LET toks == Split(DecodeInput.Encoding)
        IN  \E k \in 1..Len(toks) :
                LET a == Applied(DecodeInput.Data, toks, k + 1, dcipher)
                IN  /\ a.ok
                    /\ ~DecodeToken(a.d, toks[k], dcipher).ok
                    /\ msg.Data = a.d
                    /\ msg.Encoding = Join(SubSeq(toks, 1, k))

\* a message encrypted on a chain that already held a token is decoded without
\* a cipher: base64 is undone, the cipher token fails
C11_Witness ==
    /\ cstage = "roundtrip"
    /\ cerr = "noCipher"
    /\ orig.Encoding = <<encJSON>>
    /\ msg.Data.t = "bytes"
    /\ msg.Encoding = <<encJSON, "/", encUTF8, "/", "cipher+aes-128-cbc">>

\* C12: encoding non-nil data that is neither a string nor bytes succeeds
\* exactly when the data marshals to a JSON object or array; for a number, a
\* boolean, a value marshalling to null, or a value json.Marshal rejects, it
\* returns an error and the empty Message.
C12_EncodeRejectsScalarJSON ==
    (cstage \in {"encoded", "encodeFailed"} /\ orig.Data.t \in {"json", "chan"}) =>
        IF orig.Data.t = "json" /\ orig.Data.v.k \in {"object", "array"}
        THEN cstage = "encoded" /\ cerr = Nil
        ELSE /\ cstage = "encodeFailed"
             /\ cerr # Nil
             /\ msg = [Data |-> NilData, Encoding |-> <<>>]

\* the number 42 was refused, with a cipher set and a chain already present
C12_Witness ==
    /\ cstage = "encodeFailed"
    /\ orig.Data = [t |-> "json", v |-> JNum(42)]
    /\ orig.Encoding # <<>>
    /\ cipher # NoCipher
    /\ cerr # Nil

\* the tokens of an encoding chain, none for the empty chain
Tokens(e) == IF e = <<>> THEN <<>> ELSE Split(e)

\* the token the claim gives the data itself, and the value to be encrypted
PlainTokens(d) ==
    IF d.t = "string" /\ ValidString(d.b) THEN <<>>
    ELSE IF d.t \in {"string", "bytes"} THEN <<<<encBase64>>>>
    ELSE <<<<encJSON>>>>
PreEncryption(d) ==
    IF d.t = "string" /\ ValidString(d.b) THEN d.b
    ELSE IF d.t \in {"string", "bytes"} THEN Base64Encode(d.b)
    ELSE Marshal(d.v)
CipherTokens(d, c) ==
    IF c = NoCipher THEN <<>>
    ELSE (IF ValidString(PreEncryption(d)) THEN <<<<encUTF8>>>> ELSE <<>>)
             \o <<<<c.alg>>, <<encBase64>>>>

\* C13: a successful encode of non-nil data leaves the chain it found in place
\* and appends, in this order: nothing for valid UTF-8 text, base64 for bytes
\* and for text that is not valid UTF-8, json for other data; with a cipher
\* then utf-8 when the value to encrypt is a valid UTF-8 string, the cipher's
\* token and base64. A successful decode has applied every token of the chain,
\* the last one first, and leaves the empty chain.
C13_EncodeAppendsDecodeConsumesFromEnd ==
    /\ (cstage = "encoded" /\ orig.Data # NilData) =>
           msg.Encoding = Join(Tokens(orig.Encoding) \o PlainTokens(orig.Data)
                                   \o CipherTokens(orig.Data, cipher))
    /\ (/\ cstage \in {"decoded", "roundtrip"}
        /\ cerr = Nil
        /\ DecodeInput.Data # NilData
        /\ DecodeInput.Encoding # <<>>) =>
           LET a == Applied(DecodeInput.Data, Split(DecodeInput.Encoding), 1, dcipher)
           IN  a.ok /\ msg.Data = a.d /\ msg.Encoding = <<>>

\* bytes were encrypted on a chain that held a token, and all five tokens of
\* the result were decoded again
C13_Witness ==
    /\ cstage = "roundtrip"
    /\ cerr = Nil
    /\ cipher # NoCipher
    /\ dcipher = cipher
    /\ orig.Data.t = "bytes"
    /\ Len(orig.Data.b) = 2
    /\ DecodeInput.Encoding = <<encUTF8, "/", encBase64, "/", encUTF8, "/",
                                "cipher+aes-128-cbc", "/", encBase64>>
    /\ msg.Data = Str(orig.Data.b)
    /\ msg.Encoding = <<>>

\* ---------------------------------------------------------------- claims: paginator
\* every page of the chain lies in the directory of the request's path
SameDir(srv) ==
    \A k \in 1..Len(srv.chain) : pathDir(StripQuery(srv.chain[k].url)) = pathDir(ReqPath)
ChainPages(srv) == [k \in 1..Len(srv.chain) |-> srv.chain[k].items]
IsPrefix(a, b) == Len(a) <= Len(b) /\ a = SubSeq(b, 1, Len(a))

RECURSIVE ItemsUntilEmpty(_)
ItemsUntilEmpty(pages) ==
    IF pages = <<>> THEN <<>>
    ELSE IF Head(pages) = <<>> THEN <<>>
    ELSE Head(pages) \o ItemsUntilEmpty(Tail(pages))

C16_ErrReportsFailures ==
    /\ (gcall.op = "next" /\ ~gcall.ret /\ gcall.failure # Nil) => pg.err = gcall.failure
    /\ (gcall.op = "next" /\ ~gcall.ret /\ gcall.failure = Nil /\ ~gh.failed) =>
           pg.err = Nil
    /\ (gcall.op = "First" /\ gcall.failure # Nil) => pg.err = gcall.failure
    /\ (gcall.op = "next" /\ gcall.wasFirst /\ gcall.resNil) => ~gcall.ret /\ ~gpanic

Resolved(url, rel) == pathJoin(pathDir(StripQuery(url)), rel)

\* C18: the first and next links PaginatedResultNew holds are the relative
\* paths of the response it holds, resolved against the directory of that
\* response's path without its query; the path of a PaginatedResult that Next
\* returned is the next link of the page before it, resolved the same way.
C18_LinksResolvedAtLoadedPage ==
    /\ (gmode \in {"pages", "items"} /\ ~pg.res.nil) =>
           /\ Header(pg.res.links, "next") # <<>> =>
                  pg.nextLink = Resolved(pg.res.url, Header(pg.res.links, "next"))
           /\ Header(pg.res.links, "first") # <<>> =>
                  pg.firstLink = Resolved(pg.res.url, Header(pg.res.links, "first"))
    /\ (gmode = "old" /\ ~old.prev.nil) =>
           old.page.url = Resolved(old.prev.url, Header(old.prev.links, "next"))

\* ---------------------------------------------------------------- claims: host router
\* the hosts a router is configured with: its primary and every fallback host
ConfiguredHosts ==
    {IF rt.kind = "rest" THEN restHost ELSE realtimeHost}
        \cup {FallbackHosts[i] : i \in 1..MaxFallbacks}

ReturnedBefore(j) == {hh.calls[i].host : i \in 1..(j - 1)}

\* C19: in one retry cycle (preferredHost at most once and first, then
\* fallbackHost calls), with or without a cached host, no host is returned
\* twice, fallbackHost returns the empty host only after the primary and every
\* configured fallback host were returned, and as many fallbackHost calls as
\* there are candidates have covered them all.
C19_CycleCoversEveryHostOnce ==
    LET c == hh.calls
    IN  /\ \A i, j \in DOMAIN c :
              (i < j /\ c[i].host = c[j].host) => c[i].host = NoHost
        /\ \A j \in DOMAIN c :
              (c[j].op = "fallbackHost" /\ c[j].host = NoHost)
                  => ConfiguredHosts \subseteq ReturnedBefore(j)
        /\ \A i, j \in DOMAIN c :
              (i < j /\ c[i].host = NoHost) => c[j].host = NoHost
        /\ Cardinality({j \in DOMAIN c : c[j].op = "fallbackHost"})
                  >= Cardinality(ConfiguredHosts)
              => ConfiguredHosts \subseteq ReturnedBefore(Len(c) + 1)

\* a cycle with a fallback host cached: preferredHost returned it, fallbackHost
\* then returned the primary host and went on until the empty host
C19_Witness ==
    /\ hh.cached = "b.ably-realtime.com"
    /\ Len(hh.calls) = MaxFallbacks + 2
    /\ hh.calls[1] = [op |-> "preferredHost", host |-> "b.ably-realtime.com"]
    /\ hh.calls[2] = [op |-> "fallbackHost", host |-> restHost]
    /\ hh.calls[Len(hh.calls)] = [op |-> "fallbackHost", host |-> NoHost]

ConfiguredTimeout ==
    IF rt.opts.FallbackRetryTimeout # 0
    THEN rt.opts.FallbackRetryTimeout
    ELSE DefaultFallbackRetryTimeout

\* C20: every preferredHost call returns the host last passed to cacheHost
\* when fewer than fallbackRetryTimeout minutes have passed since, and the
\* primary host of the router (rest.ably.io, realtime.ably.io) when no host
\* was cached or more than that has passed; a host given to
\* setPrimaryFallbackHost takes the primary's place and is left to C22.
C20_PreferredHostFollowsCache ==
    [][(hcall'.op = "preferredHost" /\ now' = now) =>
          /\ (hh.cached # NoHost /\ now - hh.cachedAt < ConfiguredTimeout)
                => hcall'.ret = hh.cached
          /\ (/\ hh.shared = NoHost
              /\ hh.cached = NoHost \/ now - hh.cachedAt > ConfiguredTimeout)
                => hcall'.ret = (IF rt.kind = "rest" THEN restHost ELSE realtimeHost)
          /\ (rt.kind = "realtime" /\ hh.cached = NoHost)
                => hcall'.ret = realtimeHost]_vars

\* preferredHost has returned the primary host after the cached host expired
C20_Witness ==
    /\ hcall = [op |-> "preferredHost", ret |-> restHost]
    /\ hh.cached = "custom-ably.rest"
    /\ hh.shared = NoHost
    /\ now - hh.cachedAt > ConfiguredTimeout

\* C21: in a cycle that resetVisited began, whatever was visited before it,
\* the first fallbackHost calls return the primary and every configured
\* fallback host, each once, and every call after them the empty host.
C21_ResetVisitedRestartsCycle ==
    LET c == hh.calls
        n == Cardinality(ConfiguredHosts)
    IN  (hh.reset # "no" /\ \A j \in DOMAIN c : c[j].op = "fallbackHost") =>
            /\ \A j \in DOMAIN c : j <= n => c[j].host \in ConfiguredHosts
            /\ \A i, j \in DOMAIN c : (i < j /\ j <= n) => c[i].host # c[j].host
            /\ \A j \in DOMAIN c : j > n => c[j].host = NoHost

\* hosts had been returned, resetVisited was called, and fallbackHost then
\* returned every candidate and the empty host
C21_Witness ==
    /\ hh.reset = "visited"
    /\ Len(hh.calls) = MaxFallbacks + 2
    /\ \A j \in DOMAIN hh.calls : hh.calls[j].op = "fallbackHost"
    /\ hh.calls[1].host = rt.primary
    /\ hh.calls[Len(hh.calls)].host = NoHost

\* C22: on the REST router, with no host cached, a preferredHost call made
\* after setPrimaryFallbackHost(h) returns h, which is not the configured
\* primary REST host.
C22_PreferredHostIsSharedHost ==
    (/\ rt.kind = "rest"
     /\ hcall.op = "preferredHost"
     /\ hh.shared # NoHost
     /\ hh.cached = NoHost) => (hcall.ret = hh.shared /\ hcall.ret # restHost)

C22_Witness ==
    /\ rt.kind = "rest"
    /\ hcall = [op |-> "preferredHost", ret |-> "custom-ably.realtime"]
    /\ hh.shared = "custom-ably.realtime"
    /\ hh.cached = NoHost

\* ---------------------------------------------------------------- claims: Shuffle
Occurrences(l, h) == Cardinality({k \in DOMAIN l : l[k] = h})

\* C23: for a slice of any length, 0 and 1 included, and every value the
\* random source gives, Shuffle does not panic, and the slice it returns holds
\* every host as many times as the slice it was given.
C23_ShuffleReturnsPermutation ==
    /\ shState # "panicked"
    /\ shState = "returned" =>
           \A h \in ShuffleHosts : Occurrences(shL, h) = Occurrences(shIn, h)

\* ---------------------------------------------------------------- claims: endpoint URLs
\* the host part of a URL: what follows the scheme, up to the colon before
\* the port, without the brackets of net.JoinHostPort
UrlHost(u) ==
    LET rest == Tail(u)
        stop == IF Head(rest) = "["
                THEN CHOOSE k \in DOMAIN rest : rest[k] = "]" /\ \A j \in 1..(k - 1) : rest[j] # "]"
                ELSE CHOOSE k \in DOMAIN rest : rest[k] = ":" /\ \A j \in 1..(k - 1) : rest[j] # ":"
    IN  IF Head(rest) = "[" THEN SubSeq(rest, 2, stop - 1) ELSE SubSeq(rest, 1, stop - 1)

ConfiguredHost == IF resolved.kind = "rest" THEN options.RESTHost ELSE options.RealtimeHost
DefaultHost == IF resolved.kind = "rest" THEN <<restHost>> ELSE <<realtimeHost>>

Made == {c \in ResultChs : results[c].made}

\* C25: a Wait that ends because its context is cancelled, the channel being
\* empty or not, returns the cancellation error; the entry of that publish stays in the
\* pending-ack queue until an Ack or Nack completes it; no channel ever holds
\* more than the one value its buffer has room for, so Ack and Nack never
\* block; and the completion is never received: every later Wait on that
\* result returns the cancellation error.
C25_CancelledWaitOrphansEntry ==
    /\ \A c \in Made :
           /\ Len(Buffered(chans, results, c)) <= 1
           /\ results[c].cancelled =>
                  /\ results[c].recvd = 0
                  /\ (results[c].queued /\ chans[c] = <<>>)
                         => \E k \in DOMAIN queue : queue[k].ch = c
                  /\ lastWait.ch = c => lastWait.ret = Canceled

\* the first Wait was cancelled, a later Ack or Nack completed the entry, and
\* a Wait after that, with a live context, returned the cancellation error
C25_Witness ==
    \E c \in Made :
        /\ results[c].cancelled
        /\ results[c].queued
        /\ Len(chans[c]) = 1
        /\ \A k \in DOMAIN queue : queue[k].ch # c
        /\ lastWait = [ch |-> c, ret |-> Canceled, ctxDone |-> FALSE, first |-> FALSE]

\* C26: once a Wait on a result has received the outcome of the operation,
\* every Wait on it returns that outcome, whether its context is cancelled or
\* not, and a later one returns at once.
C26_WaitRepeatsOutcome ==
    \A c \in Made :
        (results[c].outcome # NoOutcome /\ lastWait.ch = c) =>
            /\ lastWait.ret = results[c].outcome
            /\ ~results[c].listen
            /\ results[c].outcome = chans[c][1]

\* a Wait with a cancelled context, made after the outcome E1 was received
C26_Witness ==
    \E c \in Made :
        /\ results[c].outcome = "E1"
        /\ lastWait = [ch |-> c, ret |-> "E1", ctxDone |-> TRUE, first |-> FALSE]

\* ---------------------------------------------------------------- claims: Ack and Nack as queue operations
\* C28: no channel handed to Enqueue ever holds more than one result, and
\* when the call after an Enqueue is an Ack or Nack covering the serial of
\* that Enqueue, the channel it handed over holds exactly one result after
\* it, also when the serial was already queued.
C28_OneResultPerChannel ==
    [][/\ \A c \in DOMAIN chans : Len(chans'[c]) <= 1
       /\ (/\ lastOp.op = "Enqueue"
           /\ lastOp'.op \in {"Ack", "Nack"}
           /\ ~panicked'
           /\ lastOp.serial >= lastOp'.serial
           /\ lastOp.serial < lastOp'.serial + lastOp'.count)
             => Len(chans'[nextCh - 1]) = 1]_vars

\* C29: an Ack or Nack call leaves a suffix of the queue it found, has sent a
\* result to exactly the entries it removed, and on an empty queue changes no
\* queue and no channel.
C29_AckNackRemoveCompletedPrefix ==
    [][lastOp'.op \in {"Ack", "Nack"} =>
          /\ \E k \in 0..Len(queue) :
                /\ queue' = SubSeq(queue, k + 1, Len(queue))
                /\ \A j \in 1..Len(queue) :
                      (chans'[queue[j].ch] # chans[queue[j].ch]) <=> (j <= k)
          /\ queue = <<>> => (queue' = <<>> /\ chans' = chans)]_vars

\* C30: every entry a Nack has completed and removed received an error
\* that is not nil, also when the NACK carried no ErrorInfo.
C30_NackSendsError ==
    lastOp.op = "Nack" =>
        \A e \in Entries(lastOp.pre) :
            ~InQueue(e) => (Res(e) # <<>> /\ \A k \in DOMAIN Res(e) : Res(e)[k] # Nil)

\* ---------------------------------------------------------------- claims: goWaiter
\* C27: every Wait on the result of goWaiter(f) that is made with a context
\* that is not cancelled and returns after f has finished, the first and
\* every later one, returns the error f returned.
C27_WaitReturnsErrorOfF ==
    (gwWait.count > 0 /\ ~gwWait.ctxDone /\ gwWait.finished) => gwWait.ret = gw.f

\* ---------------------------------------------------------------- claims: failures of next, orderings of Shuffle
\* the page whose loading the last call of next failed on: the response the
\* paginator holds when its body could not be decoded, the page behind the
\* next link when the request failed
FailedPage ==
    IF gcall.failure = "decodeFailed" THEN pg.res
    ELSE Query(server, pg.nextLink, FALSE).res

\* C34: when a call of next that returned false because of a failure is
\* followed by a call of next that returns true, the second call returns the
\* page the first one failed on.
C34_FailedNextDoesNotAdvance ==
    [][(/\ gmode = "pages"
        /\ gcall.op = "next"
        /\ ~gcall.ret
        /\ gcall.failure # Nil
        /\ ~pg.res.nil \/ gcall.failure = "requestFailed"
        /\ gcall'.op = "next"
        /\ gcall'.ret)
          => gcall'.page = FailedPage.items]_vars

\* the orderings of a list of distinct elements
Orderings(l) ==
    {p \in [1..Len(l) -> {l[k] : k \in 1..Len(l)}] :
        \A i, j \in 1..Len(l) : i # j => p[i] # p[j]}

\* C35: for a list of two or more distinct hosts, every ordering of the list
\* is a result Shuffle can return, the one that leaves the last host in the
\* last position among them.
C35_ShuffleReachesEveryOrdering ==
    (/\ shState = "returned"
     /\ Len(shIn) >= 2
     /\ \A i, j \in 1..Len(shIn) : i # j => shIn[i] # shIn[j])
        => /\ Orderings(shIn) \subseteq Shuffle(shIn)
           /\ \E p \in Shuffle(shIn) : p[Len(p)] = shIn[Len(shIn)]

\* ---------------------------------------------------------------- claims: request parameters
ValidDirection(pp) == pp.Direction \in {<<>>, <<"backwards">>, <<"forwards">>}
StartAfterEnd(pp) == pp.Start # 0 /\ pp.End # 0 /\ pp.Start > pp.End

\* C36: PaginateParams.EncodeValues returns nil exactly when the direction is
\* empty, backwards or forwards and the scope's start is not after its end.
C36_EncodeValuesRejectsInvalid ==
    encoded.called =>
        (encoded.err = Nil <=> (ValidDirection(pparams) /\ ~StartAfterEnd(pparams)))

\* ---------------------------------------------------------------- claims: default options
\* the argument of the last option of os with one of the names, none if no such option
Setters(os, names) == {k \in 1..Len(os) : os[k].name \in names}
LastSetter(os, names) ==
    os[CHOOSE k \in Setters(os, names) : \A j \in Setters(os, names) : j <= k]

\* what a call with the options os is to return, from the defaults and os alone
ExpectedKey(os) ==
    IF Setters(os, {"WithKey", "AuthWithKey"}) = {} THEN ""
    ELSE LastSetter(os, {"WithKey", "AuthWithKey"}).str
ExpectedTTL(os) ==
    IF Setters(os, {"WithDefaultTokenParams", "AuthWithDefaultTokenParams"}) = {}
    THEN 3600000
    ELSE LastSetter(os, {"WithDefaultTokenParams", "AuthWithDefaultTokenParams"}).num
ExpectedRESTHost(os) ==
    IF Setters(os, {"WithRESTHost"}) = {} THEN "rest.ably.io"
    ELSE LastSetter(os, {"WithRESTHost"}).str
ExpectedPort(os) ==
    IF Setters(os, {"WithPort"}) = {} THEN 80 ELSE LastSetter(os, {"WithPort"}).num

\* C37: the package variable defaultOptions keeps its initial value, and the
\* result of every call is the defaults changed by the options of that call
\* alone, with a token TTL of 60 minutes when no option sets the token
\* parameters: a call with no options returns the defaults.
C37_DefaultsNeverChange ==
    /\ defaultOptions = DefaultOptions
    /\ \A k \in 1..Len(built) :
          LET c == built[k]
          IN  /\ c.auth = [Key |-> ExpectedKey(c.os),
                           DefaultTokenParams |-> [nil |-> FALSE, TTL |-> ExpectedTTL(c.os)]]
              /\ c.kind = "client" =>
                    (c.RESTHost = ExpectedRESTHost(c.os) /\ c.Port = ExpectedPort(c.os))

\* a call with two options, followed by a call with no options that
\* returned the defaults
C37_Witness ==
    /\ Len(built) = 2
    /\ built[1].kind = "client"
    /\ Len(built[1].os) = 2
    /\ built[1].Port = 8080
    /\ built[1].auth.Key = "abc:def"
    /\ built[2] = [kind |-> "client", os |-> <<>>,
                   auth |-> [Key |-> "", DefaultTokenParams |-> [nil |-> FALSE, TTL |-> 3600000]],
                   RESTHost |-> "rest.ably.io", Port |-> 80]

\* ---------------------------------------------------------------- claims: msgQueue under concurrent callers
\* the messages the callers have appended, and how often each was handled
Appended == UNION {{procs[p].mine[k] : k \in 1..Len(procs[p].mine)} : p \in Callers}
TimesQueued(m) == Cardinality({k \in 1..Len(outq) : outq[k].msg = m})
TimesSent(m) == Cardinality({k \in 1..Len(frames) : frames[k].msg = m})
TimesFailed(m) == Len(chans[m])
FramePos(m) == CHOOSE k \in 1..Len(frames) : frames[k].msg = m

\* C31: whatever the interleaving of the callers, an appended message is
\* never lost, never sent twice, never failed twice and never both sent and
\* failed; between calls it is exactly one of sent, failed and queued; and
\* the messages of one caller are sent in the order that caller appended them.
C31_EveryMessageHandledOnce ==
    /\ \A m \in Appended :
          /\ TimesSent(m) + TimesFailed(m) <= 1
          /\ TimesQueued(m) + TimesSent(m) + TimesFailed(m) >= 1
          /\ TimesQueued(m) <= 1
          /\ mtx = NoCaller => TimesQueued(m) + TimesSent(m) + TimesFailed(m) = 1
    /\ \A p \in Callers :
          \A i, j \in 1..Len(procs[p].mine) :
              LET a == procs[p].mine[i]
                  b == procs[p].mine[j]
              IN  (i < j /\ TimesSent(b) = 1) =>
                      (TimesFailed(a) = 1 \/ (TimesSent(a) = 1 /\ FramePos(a) < FramePos(b)))

\* both callers have appended; of the three messages one was sent, one was
\* failed and one is queued, while a caller holds the mutex in the loop of Flush
C31_Witness ==
    /\ \A p \in Callers : procs[p].mine # <<>>
    /\ \E a, b, c \in Appended :
          /\ TimesSent(a) = 1
          /\ TimesFailed(b) = 1
          /\ TimesQueued(c) = 1
          /\ TimesSent(c) = 0
    /\ \E p \in Callers : mtx = p /\ procs[p].op = "Flush" /\ procs[p].i = 1

\* ---------------------------------------------------------------- claims: listenResult
\* C32: whatever state changes are emitted and in whatever order, and also
\* when Wait is never called, the emitter never blocks on the result's
\* channel: at most 1 + len(failed) changes are sent to it, and the channel
\* never holds more than that.
C32_ListenersNeverBlockEmitter ==
    /\ ~lr.blocked
    /\ lr.sent <= 1 + Len(lr.failed)
    /\ Len(lr.changes) <= 1 + Len(lr.failed)

\* Wait was never called, and the expected state and two failed states have
\* each been emitted and delivered
C32_Witness ==
    /\ lrWait.count = 0
    /\ Len(lr.failed) = 2
    /\ lr.sent = 3
    /\ Len(lr.changes) = 3
    /\ lr.listeners = {}

\* C33: a Wait that received a change returns nil exactly when the change's
\* Current is the expected state, and for another state the change's Reason,
\* or the internal error when the Reason is nil; a Wait ended by its context
\* returns the context's error; and when a Wait has returned no listener of
\* the result is registered any more.
C33_WaitReportsFirstChange ==
    lrWait.count > 0 =>
        /\ lr.listeners = {}
        /\ lrWait.how = "ctx" => lrWait.ret = Canceled
        /\ lrWait.how = "change" =>
              /\ lrWait.ret = Nil <=> lrWait.cur = lr.expected
              /\ lrWait.cur # lr.expected =>
                    lrWait.ret = IF lrWait.reason # Nil THEN lrWait.reason
                                 ELSE IF lr.kind = "channel" THEN "ErrInternalChannelError"
                                 ELSE "ErrInternalConnectionError"

\* a Wait on a channel result that received a failed state without Reason
\* while the listener of the expected state was still registered
C33_Witness ==
    /\ lr.kind = "channel"
    /\ lrWait = [count |-> 1, ret |-> "ErrInternalChannelError", how |-> "change",
                 cur |-> "failed", reason |-> Nil]
    /\ lr.expected = "attached"
    /\ lr.sent = 1
    /\ lr.listeners = {}

====
